---- MODULE Spec2Model ----
(***************************************************************************)
(* A model of the DMARC report monitor's decision engine:                  *)
(*   src/src/database.py            the report store (DMARCDatabase)       *)
(*   src/src/enhanced_reporting.py  the issue classifier (EnhancedReporter)*)
(* The four SQLite tables are sequences of rows in insertion (rowid)       *)
(* order.  Time is counted in whole days.  Authentication rates are exact  *)
(* rationals [n, d] in lowest terms, so that equal rates are equal values. *)
(***************************************************************************)
EXTENDS Integers, Sequences, FiniteSets, TLC

VARIABLES
    reports,        \* table reports        (database.py:27-41)
    records,        \* table records        (database.py:43-52)
    analyses,       \* table analyses       (database.py:54-63)
    alert_history,  \* table alert_history  (database.py:65-72)
    report_seq,     \* AUTOINCREMENT counter of reports.id
    now,            \* the current day
    last_successful_run,  \* data/last_successful_run.txt: the day written, or None
    last_failed_run,      \* data/last_failed_run.txt: the day written, or None
    running,        \* the runs of dmarc_monitor.py in progress, by who started them
    last            \* the last operation performed, its arguments and result

vars == <<reports, records, analyses, alert_history, report_seq, now,
          last_successful_run, last_failed_run, running, last>>

markers == <<last_successful_run, last_failed_run>>

tables == <<reports, records, analyses, alert_history>>

(***************************************************************************)
(* Bounds of the model.                                                    *)
(***************************************************************************)
MaxStores == 2      \* committed store_report calls in one behaviour
MaxNow == 31        \* last day the clock reaches
MaxSourceStores == 3   \* committed stores in a behaviour of SpecSources
MaxAlerts == 2      \* rows of alert_history in a behaviour of SpecPurge

TickDays == {7, 31} \* the clock advances by a week or by a month

None == -1           \* Python's None where the code expects a row id
NoneText == <<"None">>  \* Python's None where the code expects a narrative

(***************************************************************************)
(* Exact rational arithmetic for the float columns and the rates.          *)
(***************************************************************************)
Abs(x) == IF x < 0 THEN 0 - x ELSE x

RECURSIVE GCD(_, _)
GCD(a, b) == IF b = 0 THEN a ELSE GCD(b, a % b)

Rat(n, d) ==
    LET g == GCD(Abs(n), d)
    IN  [n |-> n \div g, d |-> d \div g]

RatInt(k) == [n |-> k, d |-> 1]

RatAdd(x, y) == Rat(x.n * y.d + y.n * x.d, x.d * y.d)

RatSub(x, y) == Rat(x.n * y.d - y.n * x.d, x.d * y.d)

RatDivInt(x, k) == Rat(x.n, x.d * k)

RatLt(x, y) == x.n * y.d < y.n * x.d

RatLe(x, y) == x.n * y.d <= y.n * x.d

RatAbs(x) == [n |-> Abs(x.n), d |-> x.d]

\* Python's round(x, 1): the nearest tenth, an exact tie going to the even tenth.
Round1(x) ==
    LET t    == (10 * x.n) \div x.d
        rem2 == 2 * (10 * x.n - t * x.d)
        up   == IF rem2 > x.d THEN TRUE
                ELSE IF rem2 < x.d THEN FALSE
                ELSE t % 2 = 1
    IN  Rat(IF up THEN t + 1 ELSE t, 10)

(***************************************************************************)
(* Sums over the rows of a table.                                          *)
(***************************************************************************)
RECURSIVE SumCount(_)
SumCount(rows) ==
    IF rows = << >> THEN 0 ELSE Head(rows).count + SumCount(Tail(rows))

RECURSIVE SumRate(_)
SumRate(rows) ==
    IF rows = << >> THEN RatInt(0)
    ELSE RatAdd(Head(rows).auth_success_rate, SumRate(Tail(rows)))

RECURSIVE SumSources(_)
SumSources(rows) ==
    IF rows = << >> THEN 0
    ELSE Head(rows).new_sources_detected + SumSources(Tail(rows))

Range(s) == {s[i] : i \in 1..Len(s)}

(***************************************************************************)
(* Narratives are sequences of characters; the keyword tests of the code   *)
(* are substring tests on the lower-cased text.                            *)
(***************************************************************************)
WarnGlyph == "WARNING_SIGN"
CrossGlyph == "CROSS_MARK"

Lower(ch) ==
    CASE ch = "A" -> "a"
      [] ch = "B" -> "b"
      [] ch = "C" -> "c"
      [] ch = "D" -> "d"
      [] ch = "E" -> "e"
      [] ch = "F" -> "f"
      [] ch = "G" -> "g"
      [] ch = "H" -> "h"
      [] ch = "I" -> "i"
      [] ch = "J" -> "j"
      [] ch = "K" -> "k"
      [] ch = "L" -> "l"
      [] ch = "M" -> "m"
      [] ch = "N" -> "n"
      [] ch = "O" -> "o"
      [] ch = "P" -> "p"
      [] ch = "Q" -> "q"
      [] ch = "R" -> "r"
      [] ch = "S" -> "s"
      [] ch = "T" -> "t"
      [] ch = "U" -> "u"
      [] ch = "V" -> "v"
      [] ch = "W" -> "w"
      [] ch = "X" -> "x"
      [] ch = "Y" -> "y"
      [] ch = "Z" -> "z"
      [] OTHER -> ch

LowerText(s) == [i \in 1..Len(s) |-> Lower(s[i])]

Contains(s, k) ==
    \E i \in 1..(Len(s) - Len(k) + 1) : SubSeq(s, i, i + Len(k) - 1) = k

ContainsAny(s, keywords) == \E k \in keywords : Contains(s, k)

\* enhanced_reporting.py:81
issue_keywords ==
    { <<"i", "s", "s", "u", "e">>,
      <<"p", "r", "o", "b", "l", "e", "m">>,
      <<"f", "a", "i", "l">>,
      <<"s", "u", "s", "p", "i", "c", "i", "o", "u", "s">>,
      <<"e", "r", "r", "o", "r">>,
      <<"w", "a", "r", "n", "i", "n", "g">>,
      <<WarnGlyph>>,
      <<CrossGlyph>> }

\* A list of positive phrases without 'no issues'.
positive_keywords_NoIssuesMissing ==
    { <<"n", "o", "n", "e", " ", "d", "e", "t", "e", "c", "t", "e", "d">>,
      <<"p", "e", "r", "f", "e", "c", "t">>,
      <<"h", "e", "a", "l", "t", "h", "y">>,
      <<"w", "o", "r", "k", "i", "n", "g", " ", "w", "e", "l", "l">>,
      <<"n", "o", " ", "p", "r", "o", "b", "l", "e", "m", "s">>,
      <<"a", "l", "l", " ", "c", "l", "e", "a", "r">>,
      <<"s", "u", "c", "c", "e", "s", "s">>,
      <<"p", "a", "s", "s", "i", "n", "g">>,
      <<"l", "e", "g", "i", "t", "i", "m", "a", "t", "e">> }

\* enhanced_reporting.py:82-83
positive_keywords ==
    { <<"n", "o", "n", "e", " ", "d", "e", "t", "e", "c", "t", "e", "d">>,
      <<"n", "o", " ", "i", "s", "s", "u", "e", "s">>,
      <<"p", "e", "r", "f", "e", "c", "t">>,
      <<"h", "e", "a", "l", "t", "h", "y">>,
      <<"w", "o", "r", "k", "i", "n", "g", " ", "w", "e", "l", "l">>,
      <<"n", "o", " ", "p", "r", "o", "b", "l", "e", "m", "s">>,
      <<"p", "e", "r", "f", "e", "c", "t", " ", "s", "c", "o", "r", "e", "s">>,
      <<"a", "l", "l", " ", "c", "l", "e", "a", "r">>,
      <<"s", "u", "c", "c", "e", "s", "s">>,
      <<"p", "a", "s", "s", "i", "n", "g">>,
      <<"l", "e", "g", "i", "t", "i", "m", "a", "t", "e">> }

\* database.py:171-174, tested on the lower-cased narrative
db_issue_keywords ==
    { <<"i", "s", "s", "u", "e">>,
      <<"p", "r", "o", "b", "l", "e", "m">>,
      <<"f", "a", "i", "l">>,
      <<"s", "u", "s", "p", "i", "c", "i", "o", "u", "s">> }

\* database.py:175-176, tested on the narrative as written
db_issue_glyphs == { <<WarnGlyph>>, <<CrossGlyph>> }

(***************************************************************************)
(* The inputs: narratives of the text provider and parsed reports.         *)
(***************************************************************************)
NarrRoutine == <<"r", "o", "u", "t", "i", "n", "e">>

NarrFail == <<"S", "P", "F", " ", "F", "a", "i", "l">>

NarrNoIssues == <<"n", "o", " ", "i", "s", "s", "u", "e", "s">>

NarrError == <<"e", "r", "r", "o", "r">>

Narratives == {NarrRoutine, NarrFail, NarrNoIssues, NarrError}

\* The narratives that reach the store in this model.
StoredNarratives == {NarrRoutine, NarrFail}

\* The value None in the place of an address: <source_ip/> has no text.
NoSourceIp == "<None>"

Rec(ip, n, dkim, spf) ==
    [source_ip |-> ip, count |-> n, disposition |-> "none", dkim |-> dkim, spf |-> spf]

Parsed(domain, rid, begin, recs) ==
    [metadata |-> [org_name |-> "org", report_id |-> rid,
                   date_range |-> [begin |-> begin, end |-> begin + 1]],
     policy   |-> [domain |-> domain],
     records  |-> recs]

ReportKey(p) ==
    <<p.policy.domain, p.metadata.org_name, p.metadata.report_id,
      p.metadata.date_range.begin, p.metadata.date_range.end>>

RowKey(r) == <<r.domain, r.org_name, r.report_id, r.date_begin, r.date_end>>

\* The attachments of the mail folder.  One report key names one attachment,
\* so a report that is delivered again is the same object.
ParsedReports ==
    { Parsed("a.com", "r1", -1,  <<Rec("ip1", 19, "pass", "pass"), Rec("ip2", 1, "fail", "pass")>>),
      Parsed("a.com", "r2", -20, <<Rec("ip2", 19, "fail", "fail")>>),
      Parsed("b.com", "r1", -1,  <<Rec("ip1", 1, "pass", "pass"), Rec("ip2", 1, "fail", "pass"),
                                   Rec("ip3", 1, "pass", "unknown")>>),
      Parsed("b.com", "r2", -20, << >>) }

\* The report of the folder that a row of the reports table was stored from.
ParsedOf(row) == CHOOSE p \in ParsedReports : ReportKey(p) = RowKey(row)

Domains == {p.policy.domain : p \in ParsedReports}

\* config['thresholds']: a dictionary, any key of which may be missing.
ThresholdConfigs ==
    { << >>,
      [minimum_messages_for_alert |-> 2, auth_success_rate_min |-> RatInt(50)] }

ThresholdGet(th, key, default) == IF key \in DOMAIN th THEN th[key] ELSE default

(***************************************************************************)
(* DMARCDatabase.store_report and its parts.                               *)
(***************************************************************************)
PassBoth(rec) == rec.dkim = "pass" /\ rec.spf = "pass"

\* A metric computation that counts a message that passes either check.
_analyze_report_metrics_EitherPass(parsed_report, claude_analysis) ==
    LET total_messages == SumCount(parsed_report.records)
        EitherPass(rec) == rec.dkim = "pass" \/ rec.spf = "pass"
        successful_messages == SumCount(SelectSeq(parsed_report.records, EitherPass))
        auth_success_rate == Rat(100 * successful_messages, total_messages)
        has_issues ==
            \/ RatLt(auth_success_rate, RatInt(95))
            \/ ContainsAny(LowerText(claude_analysis), db_issue_keywords)
            \/ ContainsAny(claude_analysis, db_issue_glyphs)
        new_sources == Cardinality({rec.source_ip : rec \in Range(parsed_report.records)})
    IN  IF total_messages = 0
        THEN [has_issues |-> FALSE, auth_success_rate |-> RatInt(100), new_sources |-> 0]
        ELSE [has_issues |-> has_issues, auth_success_rate |-> auth_success_rate,
              new_sources |-> new_sources]

\* _analyze_report_metrics
_analyze_report_metrics(parsed_report, claude_analysis) ==
    LET total_messages == SumCount(parsed_report.records)
        successful_messages == SumCount(SelectSeq(parsed_report.records, PassBoth))
        auth_success_rate == Rat(100 * successful_messages, total_messages)
        has_issues ==
            \/ RatLt(auth_success_rate, RatInt(95))
            \/ ContainsAny(LowerText(claude_analysis), db_issue_keywords)
            \/ ContainsAny(claude_analysis, db_issue_glyphs)
        new_sources == Cardinality({rec.source_ip : rec \in Range(parsed_report.records)})
    IN  IF total_messages = 0
        THEN [has_issues |-> FALSE, auth_success_rate |-> RatInt(100), new_sources |-> 0]
        ELSE [has_issues |-> has_issues, auth_success_rate |-> auth_success_rate,
              new_sources |-> new_sources]

\* INSERT OR IGNORE INTO reports: a row with the same unique key is kept as it is.
InsertReport(rows, seq, parsed_report, today) ==
    IF \E r \in Range(rows) : RowKey(r) = ReportKey(parsed_report)
    THEN rows
    ELSE Append(rows,
           [id             |-> seq + 1,
            domain         |-> parsed_report.policy.domain,
            org_name       |-> parsed_report.metadata.org_name,
            report_id      |-> parsed_report.metadata.report_id,
            date_begin     |-> parsed_report.metadata.date_range.begin,
            date_end       |-> parsed_report.metadata.date_range.end,
            processed_at   |-> today,
            total_messages |-> SumCount(parsed_report.records),
            total_sources  |-> Len(parsed_report.records)])

\* SELECT id FROM reports WHERE <the unique key>
SelectReportId(rows, parsed_report) ==
    (CHOOSE r \in Range(rows) : RowKey(r) = ReportKey(parsed_report)).id

\* An insert that binds the DKIM and SPF results to each other's column.
InsertRecords_SwappedResults(rows, db_report_id, parsed_records) ==
    rows \o [i \in 1..Len(parsed_records) |->
               [report_id   |-> db_report_id,
                source_ip   |-> parsed_records[i].source_ip,
                count       |-> parsed_records[i].count,
                disposition |-> parsed_records[i].disposition,
                dkim_result |-> parsed_records[i].spf,
                spf_result  |-> parsed_records[i].dkim]]

\* INSERT OR IGNORE INTO records: the table has no unique key but its own rowid,
\* so no row is ignored as a duplicate; a row without address violates the
\* NOT NULL of source_ip and is ignored.
InsertRecords(rows, db_report_id, parsed_records) ==
    LET accepted == SelectSeq(parsed_records, LAMBDA rec : rec.source_ip # NoSourceIp)
    IN  rows \o [i \in 1..Len(accepted) |->
                   [report_id   |-> db_report_id,
                    source_ip   |-> accepted[i].source_ip,
                    count       |-> accepted[i].count,
                    disposition |-> accepted[i].disposition,
                    dkim_result |-> accepted[i].dkim,
                    spf_result  |-> accepted[i].spf]]

\* INSERT OR REPLACE INTO analyses: the table has no unique key but its own
\* rowid, so no row is ever replaced.
InsertAnalysis(rows, db_report_id, claude_analysis, metrics, today) ==
    Append(rows,
      [report_id            |-> db_report_id,
       claude_analysis      |-> claude_analysis,
       has_issues           |-> metrics.has_issues,
       auth_success_rate    |-> metrics.auth_success_rate,
       new_sources_detected |-> metrics.new_sources,
       created_at           |-> today])

\* The steps of store_report at which the store can fail.
StoreFailPoints == {"none", "report", "record", "analysis", "commit"}

\* A store that commits what it has written when an exception leaves the block.
OnException_NoRollback(before, partial) == partial

\* `with sqlite3.connect(...)` rolls the transaction back when an exception
\* leaves the block: the tables are those before the call.
OnException(before, partial) == before

\* store_report: the tables after the call and the value returned.  io_fail is
\* the statement at which SQLite raises; a narrative of None raises in the
\* metric computation (or, for an empty report, in the NOT NULL column).
store_report(db, parsed_report, claude_analysis, io_fail, today) ==
    LET reports1 == InsertReport(db.reports, db.report_seq, parsed_report, today)
        t1 == [db EXCEPT !.reports = reports1, !.report_seq = db.report_seq + 1]
        db_report_id == SelectReportId(reports1, parsed_report)
        t2 == [t1 EXCEPT !.records = InsertRecords(t1.records, db_report_id, parsed_report.records)]
        metrics == _analyze_report_metrics(parsed_report, claude_analysis)
        t3 == [t2 EXCEPT !.analyses =
                 InsertAnalysis(t2.analyses, db_report_id, claude_analysis, metrics, today)]
        total == SumCount(parsed_report.records)
    IN  IF io_fail = "report"
        THEN [db |-> OnException(db, db), result |-> None]
        ELSE IF io_fail = "record" /\ parsed_report.records # << >>
        THEN [db |-> OnException(db, t1), result |-> None]
        ELSE IF claude_analysis = NoneText
        THEN [db |-> OnException(db, t2), result |-> None]
        ELSE IF io_fail = "analysis"
        THEN [db |-> OnException(db, t2), result |-> None]
        ELSE IF io_fail = "commit"
        THEN [db |-> OnException(db, t3), result |-> None]
        ELSE [db |-> t3, result |-> db_report_id]

(***************************************************************************)
(* DMARCDatabase.log_alert.                                                *)
(***************************************************************************)
\* log_alert: one row of alert_history, created_at by CURRENT_TIMESTAMP.  The
\* AUTOINCREMENT id of the row is read by no statement and is left out.
log_alert(db, domain, alert_type, threshold_info, sent, today) ==
    [db EXCEPT !.alert_history =
       Append(@, [domain |-> domain, alert_type |-> alert_type,
                  threshold_exceeded |-> threshold_info, alert_sent |-> sent,
                  created_at |-> today])]

(***************************************************************************)
(* DMARCDatabase.purge_old_data.                                           *)
(***************************************************************************)
\* The statements of purge_old_data at which SQLite can raise.
PurgeFailPoints == {"none", "reports", "vacuum"}

RetentionDays == {0, 30}

\* purge_old_data: the tables after the call and the counts returned.
\* created_at is 'YYYY-MM-DD HH:MM:SS' and the cutoff an ISO string with a 'T',
\* so an alert of the cutoff day compares below the cutoff.
purge_old_data(db, retention_days, io_fail, today) ==
    LET cutoff == today - retention_days
        IsOld(r) == r.date_begin < cutoff
        old_report_ids == {r.id : r \in {x \in Range(db.reports) : IsOld(x)}}
        OwnedByOld(row) == row.report_id \in old_report_ids
        StaleAlert(a) == a.created_at <= cutoff
        purged == [db EXCEPT
                     !.records = SelectSeq(db.records, LAMBDA row : ~OwnedByOld(row)),
                     !.analyses = SelectSeq(db.analyses, LAMBDA row : ~OwnedByOld(row)),
                     !.reports = SelectSeq(db.reports, LAMBDA r : ~IsOld(r)),
                     !.alert_history = SelectSeq(db.alert_history, LAMBDA a : ~StaleAlert(a))]
        none == [reports_deleted |-> 0, records_deleted |-> 0,
                 analyses_deleted |-> 0, alerts_deleted |-> 0]
        counted == [reports_deleted  |-> Len(db.reports) - Len(purged.reports),
                    records_deleted  |-> Len(db.records) - Len(purged.records),
                    analyses_deleted |-> Len(db.analyses) - Len(purged.analyses),
                    alerts_deleted   |-> Len(db.alert_history) - Len(purged.alert_history)]
    IN  IF old_report_ids = {}
        THEN [db |-> db, purge_stats |-> none]
        ELSE IF io_fail = "reports"
        THEN [db |-> OnException(db, [purged EXCEPT !.reports = db.reports,
                                                     !.alert_history = db.alert_history]),
              purge_stats |-> [none EXCEPT !.records_deleted = counted.records_deleted,
                                           !.analyses_deleted = counted.analyses_deleted]]
        ELSE [db |-> purged, purge_stats |-> counted]

(***************************************************************************)
(* The read side of the store.                                             *)
(***************************************************************************)
\* FROM reports r JOIN analyses a ON r.id = a.report_id, with the columns
\* r.*, a.has_issues, a.auth_success_rate, a.new_sources_detected, a.claude_analysis
ReportsJoinAnalyses(db) ==
    LET joined == SelectSeq(db.analyses,
                    LAMBDA a : \E r \in Range(db.reports) : r.id = a.report_id)
        ReportOf(a) == CHOOSE r \in Range(db.reports) : r.id = a.report_id
    IN  [i \in 1..Len(joined) |->
           LET r == ReportOf(joined[i])
           IN  [id                   |-> r.id,
                domain               |-> r.domain,
                org_name             |-> r.org_name,
                report_id            |-> r.report_id,
                date_begin           |-> r.date_begin,
                date_end             |-> r.date_end,
                processed_at         |-> r.processed_at,
                total_messages       |-> r.total_messages,
                total_sources        |-> r.total_sources,
                has_issues           |-> joined[i].has_issues,
                auth_success_rate    |-> joined[i].auth_success_rate,
                new_sources_detected |-> joined[i].new_sources_detected,
                claude_analysis      |-> joined[i].claude_analysis]]

\* ORDER BY r.date_begin DESC
RECURSIVE OrderByDateBeginDesc(_)
OrderByDateBeginDesc(rows) ==
    IF rows = << >> THEN << >>
    ELSE LET i == CHOOSE k \in 1..Len(rows) :
                    \A j \in 1..Len(rows) :
                       /\ rows[j].date_begin <= rows[k].date_begin
                       /\ j < k => rows[j].date_begin < rows[k].date_begin
         IN  <<rows[i]>> \o
             OrderByDateBeginDesc(SubSeq(rows, 1, i - 1) \o SubSeq(rows, i + 1, Len(rows)))

\* get_historical_data
get_historical_data(db, domain, days_back, today) ==
    LET cutoff_timestamp == today - days_back
    IN  OrderByDateBeginDesc(
          SelectSeq(ReportsJoinAnalyses(db),
            LAMBDA row : row.domain = domain /\ row.date_begin >= cutoff_timestamp))

HistoricalNewest == 7    \* datetime('now', '-7 days')
HistoricalOldest == 30   \* datetime('now', '-30 days')

\* The rows compare_with_historical averages.
HistoricalWindow(db, domain, today) ==
    SelectSeq(ReportsJoinAnalyses(db),
      LAMBDA row : /\ row.domain = domain
                   /\ row.processed_at <= today - HistoricalNewest
                   /\ row.processed_at >= today - HistoricalOldest)

\* AVG(a.auth_success_rate): NULL over no rows.
AvgRate(rows) ==
    IF rows = << >> THEN [null |-> TRUE, value |-> RatInt(0)]
    ELSE [null |-> FALSE, value |-> RatDivInt(SumRate(rows), Len(rows))]

\* A test of the fetched row alone: the row of an aggregate is never missing.
Truthy_RowOnly(avg) == TRUE

\* `result[0] if result and result[0] else current_auth_rate`: NULL and 0.0 are
\* both false in Python.
Truthy(avg) == ~avg.null /\ avg.value # RatInt(0)

TrendLabel(change) ==
    IF RatLt(RatInt(2), change) THEN "improved"
    ELSE IF RatLt(change, RatInt(-2)) THEN "declined"
    ELSE "stable"

\* compare_with_historical
compare_with_historical(db, domain, current_auth_rate, today) ==
    LET result == AvgRate(HistoricalWindow(db, domain, today))
        historical_avg == IF Truthy(result) THEN result.value ELSE current_auth_rate
        change == RatSub(current_auth_rate, historical_avg)
    IN  [historical_avg |-> Round1(historical_avg),
         current_rate   |-> Round1(current_auth_rate),
         change         |-> Round1(change),
         trend          |-> TrendLabel(change)]

\* get_summary_stats: the rows of the join it aggregates.  processed_at is
\* 'YYYY-MM-DD HH:MM:SS' and the cutoff an ISO string with a 'T', so a report
\* processed on the day of the cutoff compares below the cutoff.
SummaryWindow(db, hours_back, today) ==
    SelectSeq(ReportsJoinAnalyses(db),
      LAMBDA row : row.processed_at > today - (hours_back \div 24))

\* `result[4] or 100.0`
SummaryAvg(avg) == IF Truthy(avg) THEN avg.value ELSE RatInt(100)

\* get_summary_stats
get_summary_stats(db, hours_back, today) ==
    [total_reports       |-> Len(SummaryWindow(db, hours_back, today)),
     unique_domains      |->
       Cardinality({row.domain : row \in Range(SummaryWindow(db, hours_back, today))}),
     total_messages      |->
       SumCount([i \in 1..Len(SummaryWindow(db, hours_back, today)) |->
                   [count |-> SummaryWindow(db, hours_back, today)[i].total_messages]]),
     reports_with_issues |->
       Len(SelectSeq(SummaryWindow(db, hours_back, today), LAMBDA row : row.has_issues)),
     avg_auth_rate       |->
       Round1(SummaryAvg(AvgRate(SummaryWindow(db, hours_back, today)))),
     clean_reports       |->
       Len(SummaryWindow(db, hours_back, today))
         - Len(SelectSeq(SummaryWindow(db, hours_back, today), LAMBDA row : row.has_issues))]

\* get_failure_details: the records of one report of the domain whose DKIM
\* or SPF result is not pass.
get_failure_details(db, domain, db_report_id) ==
    SelectSeq(db.records,
      LAMBDA rec : /\ rec.report_id = db_report_id
                   /\ \E r \in Range(db.reports) : r.id = rec.report_id /\ r.domain = domain
                   /\ (rec.dkim_result # "pass" \/ rec.spf_result # "pass"))

(***************************************************************************)
(* EnhancedReporter._has_significant_issues.                               *)
(***************************************************************************)
DefaultMinimumMessages == 10   \* thresholds.get('minimum_messages_for_alert', 10)
DefaultAuthRateMin == 95       \* thresholds.get('auth_success_rate_min', 95.0)
DefaultDropThreshold == 5      \* thresholds.get('auth_rate_drop_threshold', 5.0)
DefaultNewSources == 3         \* thresholds.get('new_sources_threshold', 3)
SourcesDaysBack == 7           \* get_historical_data(domain, days_back=7)

\* A classifier without a volume minimum.
minimum_messages_NoMinimum(th) == 0

minimum_messages_for_alert(th) ==
    ThresholdGet(th, "minimum_messages_for_alert", DefaultMinimumMessages)

auth_success_rate_min(th) ==
    ThresholdGet(th, "auth_success_rate_min", RatInt(DefaultAuthRateMin))

auth_rate_drop_threshold(th) ==
    ThresholdGet(th, "auth_rate_drop_threshold", RatInt(DefaultDropThreshold))

new_sources_threshold(th) ==
    ThresholdGet(th, "new_sources_threshold", DefaultNewSources)

\* A rate check that also fires at the minimum itself.
BelowRateMinimum_OrEqual(auth_success_rate, th) ==
    RatLe(auth_success_rate, auth_success_rate_min(th))

\* auth_success_rate < self.thresholds.get('auth_success_rate_min', 95.0)
BelowRateMinimum(auth_success_rate, th) ==
    RatLt(auth_success_rate, auth_success_rate_min(th))

\* The rate the reporter computes from the raw records of a report.
ReportAuthRate(raw_data) ==
    LET total_messages == SumCount(raw_data.records)
        successful_messages == SumCount(SelectSeq(raw_data.records, PassBoth))
    IN  IF total_messages > 0 THEN Rat(100 * successful_messages, total_messages)
        ELSE RatInt(100)

\* _has_significant_issues: the decision, and the check that made it.
_has_significant_issues(db, th, report, today) ==
    LET raw_data == report.raw_data
        total_messages == SumCount(raw_data.records)
        auth_success_rate == ReportAuthRate(raw_data)
        domain == raw_data.policy.domain
        historical_comparison == compare_with_historical(db, domain, auth_success_rate, today)
        new_sources == Cardinality({rec.source_ip : rec \in Range(raw_data.records)})
        historical_data == get_historical_data(db, domain, SourcesDaysBack, today)
        \* new_sources > avg_sources + threshold, with avg_sources = sum / len
        MoreSources ==
            new_sources * Len(historical_data) >
                SumSources(historical_data) + new_sources_threshold(th) * Len(historical_data)
        analysis_lower == LowerText(report.claude_analysis)
    IN  IF total_messages < minimum_messages_for_alert(th)
        THEN [significant |-> FALSE, decided_by |-> "volume"]
        ELSE IF BelowRateMinimum(auth_success_rate, th)
        THEN [significant |-> TRUE, decided_by |-> "rate"]
        ELSE IF RatLe(auth_rate_drop_threshold(th), RatAbs(historical_comparison.change))
        THEN [significant |-> TRUE, decided_by |-> "change"]
        ELSE IF historical_data # << >> /\ MoreSources
        THEN [significant |-> TRUE, decided_by |-> "sources"]
        ELSE IF ContainsAny(analysis_lower, positive_keywords)
        THEN [significant |-> FALSE, decided_by |-> "positive"]
        ELSE IF ContainsAny(analysis_lower, issue_keywords)
        THEN [significant |-> TRUE, decided_by |-> "keyword"]
        ELSE [significant |-> FALSE, decided_by |-> "none"]

(***************************************************************************)
(* EnhancedReporter: the report composer.                                  *)
(***************************************************************************)
\* A read of the store: SQLite raises when it cannot read the database file
\* (none of the reading methods catches the exception).
ReadFailPoints == {"none", "read"}

\* An exception leaves the method.
Raised == [raised |-> TRUE]

Returned(value) == [raised |-> FALSE, value |-> value]

\* dict.get(key, default)
DictGet(dict, key, default) == IF key \in DOMAIN dict THEN dict[key] ELSE default

\* config['notifications']: a dictionary, any key of which may be missing.
NotificationConfigs ==
    { << >>,
      [send_clean_status |-> FALSE],
      [quiet_mode |-> FALSE],
      [send_clean_status |-> FALSE, quiet_mode |-> FALSE] }

\* self._has_significant_issues(report) over a store whose reads may fail: the
\* volume and rate checks return before the first read.
HasSignificantIssues(db, th, report, io_fail, today) ==
    LET decision == _has_significant_issues(db, th, report, today)
    IN  IF io_fail = "read" /\ decision.decided_by \notin {"volume", "rate"}
        THEN Raised
        ELSE Returned(decision.significant)

\* `if db_report_id:`
HasReportId(report) == report.db_report_id # None /\ report.db_report_id # 0

\* get_ip_intelligence: the organisation of an address by its prefix (209.85.
\* for ip1, 40.107. for ip3), "Unknown Provider" for every other address.
get_ip_intelligence(ip) ==
    [organization |-> CASE ip = "ip1" -> "Google LLC (Gmail)"
                        [] ip = "ip3" -> "Microsoft Corporation (Office 365)"
                        [] OTHER -> "Unknown Provider",
     is_suspicious |-> FALSE]

\* NonTechnicalFormatter.analyze_ip_address: what the section prints for one
\* failing address.  `'google' in org_info.lower()` and the like are decided by
\* the organisation; none of the addresses of the model is suspicious.
analyze_ip_address(ip, org_info, dkim_result, spf_result, count) ==
    [summary |->
       CASE org_info = "Google LLC (Gmail)" ->
              [server |-> "Google/Gmail Server", of |-> << >>, emails |-> count]
         [] org_info = "Microsoft Corporation (Office 365)" ->
              [server |-> "Microsoft/Office 365 Server", of |-> << >>, emails |-> count]
         [] OTHER -> [server |-> "Unknown Server", of |-> <<org_info>>, emails |-> count],
     legitimacy |->
       CASE org_info = "Google LLC (Gmail)" ->
              IF spf_result # "pass"
              THEN "Legitimate Google server but not authorized in your SPF"
              ELSE "Authorized Google server"
         [] org_info = "Microsoft Corporation (Office 365)" ->
              IF spf_result # "pass"
              THEN "Microsoft server not properly authorized"
              ELSE "Authorized Microsoft server"
         [] OTHER -> "Cannot determine - requires investigation",
     action |->
       CASE org_info = "Google LLC (Gmail)" ->
              IF spf_result # "pass" THEN "ADD to SPF" ELSE "No action needed for this IP"
         [] org_info = "Microsoft Corporation (Office 365)" ->
              IF spf_result # "pass" THEN "ADD to SPF" ELSE "No action needed"
         [] OTHER -> "INVESTIGATE",
     technical_note |-> <<"DKIM", dkim_result, "SPF", spf_result>>]

\* NonTechnicalFormatter.create_hybrid_report_section: its headings, and one
\* entry per failure detail.
create_hybrid_report_section(domain, report_data, failure_details) ==
    [headings |-> <<"PLAIN ENGLISH EXPLANATION", "BUSINESS IMPACT">>
                  \o (IF failure_details # << >>
                      THEN <<"WHO'S SENDING FAILED EMAILS?">> ELSE << >>)
                  \o <<"HOW TO FIX THESE ISSUES">>,
     entries |-> [i \in 1..Len(failure_details) |->
                    analyze_ip_address(
                      failure_details[i].source_ip,
                      get_ip_intelligence(failure_details[i].source_ip).organization,
                      failure_details[i].dkim_result, failure_details[i].spf_result,
                      failure_details[i].count)]]

\* _create_issues_report, `if db_report_id:` ... `if failure_details:`: the
\* section of one report in the body, empty when there is none.
HybridSectionOf(db, report) ==
    IF /\ HasReportId(report)
       /\ get_failure_details(db, report.raw_data.policy.domain, report.db_report_id) # << >>
    THEN create_hybrid_report_section(
           report.raw_data.policy.domain, report.raw_data,
           get_failure_details(db, report.raw_data.policy.domain, report.db_report_id))
    ELSE [headings |-> << >>, entries |-> << >>]

\* _create_no_reports_summary: reads get_recent_issues.
_create_no_reports_summary(db, io_fail) ==
    IF io_fail = "read" THEN Raised
    ELSE Returned([has_issues |-> FALSE, no_reports |-> TRUE])

\* An issues payload that counts every report of the batch as an issue.
_create_issues_report_CountsAll(db, issues_reports, clean_reports, io_fail) ==
    IF io_fail = "read" THEN Raised
    ELSE Returned(
           [has_issues  |-> TRUE,
            issue_count |-> Len(issues_reports) + Len(clean_reports),
            failure_details |->
              [i \in 1..Len(issues_reports) |->
                 IF HasReportId(issues_reports[i])
                 THEN get_failure_details(db, issues_reports[i].raw_data.policy.domain,
                                          issues_reports[i].db_report_id)
                 ELSE << >>],
            body |->
              [i \in 1..Len(issues_reports) |-> HybridSectionOf(db, issues_reports[i])]])

\* _create_issues_report: reads get_summary_stats, compare_with_historical and,
\* for a report with an identifier, the failure details of that report.
_create_issues_report(db, issues_reports, clean_reports, io_fail) ==
    IF io_fail = "read" THEN Raised
    ELSE Returned(
           [has_issues  |-> TRUE,
            issue_count |-> Len(issues_reports),
            failure_details |->
              [i \in 1..Len(issues_reports) |->
                 IF HasReportId(issues_reports[i])
                 THEN get_failure_details(db, issues_reports[i].raw_data.policy.domain,
                                          issues_reports[i].db_report_id)
                 ELSE << >>],
            body |->
              [i \in 1..Len(issues_reports) |-> HybridSectionOf(db, issues_reports[i])]])

\* _create_clean_status_report: reads get_summary_stats, compare_with_historical
\* and the last failure date of each domain.
_create_clean_status_report(db, clean_reports, io_fail) ==
    IF io_fail = "read" THEN Raised
    ELSE Returned([has_issues |-> FALSE, clean_count |-> Len(clean_reports)])

\* `return None`: no report needed.  None and the empty dictionary are both
\* false in `if not report_data`.
NoPayload == << >>

\* The loop of generate_smart_report: _has_significant_issues, once per report.
Classified(db, th, analyzed_reports, io_fail, today) ==
    [i \in 1..Len(analyzed_reports) |->
       [report  |-> analyzed_reports[i],
        outcome |-> HasSignificantIssues(db, th, analyzed_reports[i], io_fail, today)]]

Reports(tagged) == [i \in 1..Len(tagged) |-> tagged[i].report]

\* reports_with_issues.append(report)
reports_with_issues(classified) ==
    Reports(SelectSeq(classified, LAMBDA c : ~c.outcome.raised /\ c.outcome.value))

\* clean_reports.append(report)
clean_reports(classified) ==
    Reports(SelectSeq(classified, LAMBDA c : ~c.outcome.raised /\ ~c.outcome.value))

\* The choice of the builder, after the loop.
SmartReportOf(db, notifications, analyzed_reports, classified, io_fail) ==
    IF analyzed_reports = << >>
    THEN _create_no_reports_summary(db, io_fail)
    ELSE IF \E c \in Range(classified) : c.outcome.raised
    THEN Raised
    ELSE IF reports_with_issues(classified) # << >>
    THEN _create_issues_report(db, reports_with_issues(classified),
                               clean_reports(classified), io_fail)
    ELSE IF DictGet(notifications, "send_clean_status", TRUE)
    THEN _create_clean_status_report(db, clean_reports(classified), io_fail)
    ELSE Returned(NoPayload)

\* generate_smart_report
generate_smart_report(db, th, notifications, analyzed_reports, io_fail, today) ==
    SmartReportOf(db, notifications, analyzed_reports,
                  Classified(db, th, analyzed_reports, io_fail, today), io_fail)

\* should_send_report
should_send_report(notifications, report_data) ==
    IF report_data = NoPayload THEN FALSE
    ELSE IF DictGet(report_data, "has_issues", FALSE) THEN TRUE
    ELSE IF DictGet(notifications, "send_clean_status", TRUE) THEN TRUE
    ELSE IF /\ DictGet(report_data, "no_reports", FALSE)
            /\ ~DictGet(notifications, "quiet_mode", TRUE) THEN TRUE
    ELSE FALSE

(***************************************************************************)
(* What the classifier and the composer do to the store: the methods of    *)
(* DMARCDatabase they call, and the statements those methods execute.      *)
(***************************************************************************)
\* conn.execute(...) of each method of the store the reporter can reach.
StatementsOf ==
    [ get_historical_data     |-> <<"SELECT">>,
      get_recent_issues       |-> <<"SELECT">>,
      get_summary_stats       |-> <<"SELECT">>,
      compare_with_historical |-> <<"SELECT">>,
      get_failure_details     |-> <<"SELECT">>,
      get_ip_intelligence     |-> <<"SELECT">>,
      get_last_failure_date   |-> <<"SELECT">>,
      log_alert               |-> <<"INSERT INTO alert_history">> ]

\* conn.execute(statement) and the commit that follows it.
Execute(db, statement, today) ==
    IF statement = "INSERT INTO alert_history"
    THEN log_alert(db, "a.com", "authentication_issues", "Multiple thresholds exceeded",
                   FALSE, today)
    ELSE db

\* The store after the calls of a method sequence.
RECURSIVE StoreAfter(_, _, _)
StoreAfter(db, calls, today) ==
    IF calls = << >> THEN db
    ELSE StoreAfter(Execute(db, StatementsOf[Head(calls)][1], today), Tail(calls), today)

\* A classifier that records the alert itself.
ClassifierCalls_LogsAlert(decision) ==
    IF decision.significant THEN <<"log_alert">> ELSE << >>

\* _has_significant_issues: compare_with_historical, then get_historical_data,
\* unless the volume or the rate check has returned before.
ClassifierCalls(decision) ==
    IF decision.decided_by \in {"volume", "rate"} THEN << >>
    ELSE <<"compare_with_historical", "get_historical_data">>

\* The loop of generate_smart_report.
RECURSIVE BatchClassifierCalls(_, _, _, _)
BatchClassifierCalls(db, th, analyzed_reports, today) ==
    IF analyzed_reports = << >> THEN << >>
    ELSE ClassifierCalls(_has_significant_issues(db, th, Head(analyzed_reports), today))
         \o BatchClassifierCalls(db, th, Tail(analyzed_reports), today)

\* The loop of _create_issues_report: the comparison and, for a report with an
\* identifier, its failure details and the organisation of each address.
RECURSIVE IssuesReportCalls(_, _)
IssuesReportCalls(db, issues_reports) ==
    IF issues_reports = << >> THEN << >>
    ELSE <<"compare_with_historical">>
         \o (IF HasReportId(Head(issues_reports))
             THEN <<"get_failure_details">>
                  \o [i \in 1..Len(get_failure_details(
                                     db, Head(issues_reports).raw_data.policy.domain,
                                     Head(issues_reports).db_report_id))
                        |-> "get_ip_intelligence"]
             ELSE << >>)
         \o IssuesReportCalls(db, Tail(issues_reports))

\* The loop of _create_clean_status_report.
CleanReportCalls(clean) ==
    IF clean = << >> THEN << >>
    ELSE [i \in 1..(2 * Len(clean)) |->
            IF i % 2 = 1 THEN "compare_with_historical" ELSE "get_last_failure_date"]

\* generate_smart_report: the calls of the loop, then those of the builder.
ComposerCalls(db, th, notifications, analyzed_reports, classified, today) ==
    IF analyzed_reports = << >> THEN <<"get_recent_issues">>
    ELSE BatchClassifierCalls(db, th, analyzed_reports, today)
         \o (IF reports_with_issues(classified) # << >>
             THEN <<"get_summary_stats">>
                  \o IssuesReportCalls(db, reports_with_issues(classified))
             ELSE IF DictGet(notifications, "send_clean_status", TRUE)
             THEN <<"get_summary_stats">> \o CleanReportCalls(clean_reports(classified))
             ELSE << >>)

(***************************************************************************)
(* ClaudeAnalyzer: the narrative of a report, from the provider or from    *)
(* the fallback.                                                           *)
(***************************************************************************)
CheckGlyph == "CHECK_MARK"
ArrowGlyph == "RIGHT_ARROW"

\* _get_fallback_analysis: the pieces of the text, and the address prefixes it
\* looks for.
Txt ==
    [ Status |->
        <<"\n", "*", "*", "O", "v", "e", "r", "a", "l", "l", " ", "S", "t", "a", "t", "u",
         "s", "*", "*", ":", " ">>,
      Pass |->
        <<CheckGlyph, " ", "P", "A", "S", "S">>,
      NeedsAttention |->
        <<WarnGlyph, " ", "N", "E", "E", "D", "S", " ", "A", "T", "T", "E", "N", "T", "I",
         "O", "N">>,
      Critical |->
        <<CrossGlyph, " ", "C", "R", "I", "T", "I", "C", "A", "L">>,
      Rate |->
        <<"\n", "-", " ", "A", "u", "t", "h", "e", "n", "t", "i", "c", "a", "t", "i", "o",
         "n", " ", "R", "a", "t", "e", ":", " ">>,
      Percent |->
        <<"%", " ", "(">>,
      Slash |->
        <<"/">>,
      Messages |->
        <<" ", "m", "e", "s", "s", "a", "g", "e", "s", ")", "\n", "-", " ", "D", "o", "m",
         "a", "i", "n", ":", " ">>,
      Period |->
        <<"\n", "-", " ", "R", "e", "p", "o", "r", "t", " ", "P", "e", "r", "i", "o", "d",
         ":", " ">>,
      To |->
        <<" ", "t", "o", " ">>,
      Results |->
        <<"\n", "\n", "*", "*", "A", "u", "t", "h", "e", "n", "t", "i", "c", "a", "t", "i",
         "o", "n", " ", "R", "e", "s", "u", "l", "t", "s", "*", "*", ":", "\n", "-", " ",
         "T", "o", "t", "a", "l", " ", "M", "e", "s", "s", "a", "g", "e", "s", ":", " ">>,
      Passed |->
        <<"\n", "-", " ", "P", "a", "s", "s", "e", "d", ":", " ">>,
      Failed |->
        <<"\n", "-", " ", "F", "a", "i", "l", "e", "d", ":", " ">>,
      Newline |->
        <<"\n">>,
      Investigation |->
        <<"\n", "*", "*", "I", "P", " ", "I", "n", "v", "e", "s", "t", "i", "g", "a", "t",
         "i", "o", "n", "*", "*", ":", " ", "(", "A", "I", " ", "a", "n", "a", "l", "y",
         "s", "i", "s", " ", "u", "n", "a", "v", "a", "i", "l", "a", "b", "l", "e", " ",
         "-", " ", "s", "h", "o", "w", "i", "n", "g", " ", "r", "a", "w", " ", "d", "a",
         "t", "a", ")", "\n">>,
      Dash |->
        <<"-", " ">>,
      Colon |->
        <<":", " ">>,
      IpMessages |->
        <<" ", "m", "e", "s", "s", "a", "g", "e", "s">>,
      Dkim |->
        <<" ", "(", "D", "K", "I", "M", ":", " ">>,
      Spf |->
        <<",", " ", "S", "P", "F", ":", " ">>,
      CloseLine |->
        <<")", "\n">>,
      Google |->
        <<" ", " ", ArrowGlyph, " ", "L", "i", "k", "e", "l", "y", " ", "G", "o", "o", "g",
         "l", "e", "/", "G", "m", "a", "i", "l", " ", "s", "e", "r", "v", "e", "r", "\n">>,
      Microsoft |->
        <<" ", " ", ArrowGlyph, " ", "L", "i", "k", "e", "l", "y", " ", "M", "i", "c", "r",
         "o", "s", "o", "f", "t", "/", "O", "f", "f", "i", "c", "e", " ", "3", "6", "5",
         " ", "s", "e", "r", "v", "e", "r", "\n">>,
      Aws |->
        <<" ", " ", ArrowGlyph, " ", "L", "i", "k", "e", "l", "y", " ", "A", "W", "S", " ",
         "s", "e", "r", "v", "e", "r", " ", "(", "c", "h", "e", "c", "k", " ", "i", "f",
         " ", "y", "o", "u", " ", "u", "s", "e", " ", "e", "m", "a", "i", "l", " ", "s",
         "e", "r", "v", "i", "c", "e", "s", ")", "\n">>,
      Unknown |->
        <<" ", " ", ArrowGlyph, " ", "U", "n", "k", "n", "o", "w", "n", " ", "p", "r", "o",
         "v", "i", "d", "e", "r", " ", "(", "i", "n", "v", "e", "s", "t", "i", "g", "a",
         "t", "e", " ", "f", "u", "r", "t", "h", "e", "r", ")", "\n">>,
      IssuesFound |->
        <<"\n", "*", "*", "I", "s", "s", "u", "e", "s", " ", "F", "o", "u", "n", "d", "*",
         "*", ":", " ">>,
      NoneDetected |->
        <<"N", "o", "n", "e", " ", "d", "e", "t", "e", "c", "t", "e", "d">>,
      FailedAuthentication |->
        <<" ", "m", "e", "s", "s", "a", "g", "e", "s", " ", "f", "a", "i", "l", "e", "d",
         " ", "a", "u", "t", "h", "e", "n", "t", "i", "c", "a", "t", "i", "o", "n">>,
      Recommendations |->
        <<"\n", "\n", "*", "*", "D", "I", "Y", " ", "R", "e", "c", "o", "m", "m", "e", "n",
         "d", "a", "t", "i", "o", "n", "s", "*", "*", ":", "\n">>,
      FixSpf |->
        <<"1", ".", " ", "F", "i", "x", " ", "S", "P", "F", " ", "R", "e", "c", "o", "r",
         "d", ":", "\n", " ", " ", " ", "-", " ", "L", "o", "g", " ", "i", "n", "t", "o",
         " ", "y", "o", "u", "r", " ", "d", "o", "m", "a", "i", "n", " ", "r", "e", "g",
         "i", "s", "t", "r", "a", "r", "\n", " ", " ", " ", "-", " ", "A", "d", "d", " ",
         "m", "i", "s", "s", "i", "n", "g", " ", "s", "e", "n", "d", "e", "r", "s", " ",
         "t", "o", " ", "y", "o", "u", "r", " ", "S", "P", "F", " ", "r", "e", "c", "o",
         "r", "d", "\n", " ", " ", " ", "-", " ", "F", "o", "r", " ", "G", "o", "o", "g",
         "l", "e", ":", " ", "a", "d", "d", " ", "\"", "i", "n", "c", "l", "u", "d", "e",
         ":", "_", "s", "p", "f", ".", "g", "o", "o", "g", "l", "e", ".", "c", "o", "m",
         "\"", "\n", " ", " ", " ", "-", " ", "F", "o", "r", " ", "M", "i", "c", "r", "o",
         "s", "o", "f", "t", ":", " ", "a", "d", "d", " ", "\"", "i", "n", "c", "l", "u",
         "d", "e", ":", "s", "p", "f", ".", "p", "r", "o", "t", "e", "c", "t", "i", "o",
         "n", ".", "o", "u", "t", "l", "o", "o", "k", ".", "c", "o", "m", "\"", "\n">>,
      FixDkim |->
        <<"2", ".", " ", "F", "i", "x", " ", "D", "K", "I", "M", " ", "S", "i", "g", "n",
         "i", "n", "g", ":", "\n", " ", " ", " ", "-", " ", "C", "h", "e", "c", "k", " ",
         "y", "o", "u", "r", " ", "e", "m", "a", "i", "l", " ", "s", "e", "r", "v", "i",
         "c", "e", " ", "a", "d", "m", "i", "n", " ", "p", "a", "n", "e", "l", "\n", " ",
         " ", " ", "-", " ", "E", "n", "a", "b", "l", "e", " ", "D", "K", "I", "M", " ",
         "s", "i", "g", "n", "i", "n", "g", " ", "f", "o", "r", " ", "y", "o", "u", "r",
         " ", "d", "o", "m", "a", "i", "n", "\n", " ", " ", " ", "-", " ", "A", "d", "d",
         " ", "D", "K", "I", "M", " ", "r", "e", "c", "o", "r", "d", "s", " ", "t", "o",
         " ", "y", "o", "u", "r", " ", "D", "N", "S", "\n">>,
      WorkingWell |->
        <<"-", " ", "Y", "o", "u", "r", " ", "e", "m", "a", "i", "l", " ", "a", "u", "t",
         "h", "e", "n", "t", "i", "c", "a", "t", "i", "o", "n", " ", "i", "s", " ", "w",
         "o", "r", "k", "i", "n", "g", " ", "w", "e", "l", "l", "\n", "-", " ", "C", "o",
         "n", "t", "i", "n", "u", "e", " ", "m", "o", "n", "i", "t", "o", "r", "i", "n",
         "g", " ", "f", "o", "r", " ", "a", "n", "y", " ", "c", "h", "a", "n", "g", "e",
         "s">>,
      Note |->
        <<"\n", "\n", WarnGlyph, " ", "N", "o", "t", "e", ":", " ", "A", "I", "-", "p",
         "o", "w", "e", "r", "e", "d", " ", "a", "n", "a", "l", "y", "s", "i", "s", " ",
         "w", "a", "s", " ", "u", "n", "a", "v", "a", "i", "l", "a", "b", "l", "e", " ",
         "f", "o", "r", " ", "t", "h", "i", "s", " ", "r", "e", "p", "o", "r", "t", ".",
         " ", "S", "h", "o", "w", "i", "n", "g", " ", "b", "a", "s", "i", "c", " ", "a",
         "n", "a", "l", "y", "s", "i", "s", " ", "o", "n", "l", "y", ".">>,
      None |->
        <<"N", "o", "n", "e">>,
      Ip209 |->
        <<"2", "0", "9", ".", "8", "5", ".">>,
      Ip172 |->
        <<"1", "7", "2", ".", "2", "1", "7", ".">>,
      Ip40 |->
        <<"4", "0", ".", "1", "0", "7", ".">>,
      Ip5296 |->
        <<"5", "2", ".", "9", "6", ".">>,
      Ip35 |->
        <<"3", "5", ".">>,
      Ip52 |->
        <<"5", "2", ".">>,
      Ip54 |->
        <<"5", "4", ".">> ]

\* Numbers and names as text.
Digit(d) == <<"0", "1", "2", "3", "4", "5", "6", "7", "8", "9">>[d + 1]

RECURSIVE DigitsOf(_)
DigitsOf(n) == IF n < 10 THEN <<Digit(n)>> ELSE DigitsOf(n \div 10) \o <<Digit(n % 10)>>

\* str(n) and f"{n}"
NumberText(n) == IF n < 0 THEN <<"-">> \o DigitsOf(-n) ELSE DigitsOf(n)

\* f"{x:.1f}" of a rate
OneDecimal(x) ==
    LET tenths == (10 * Round1(x).n) \div Round1(x).d
    IN  DigitsOf(tenths \div 10) \o <<".">> \o <<Digit(tenths % 10)>>

\* The addresses and the domains of the reports, as the attachments spell them.
IpText(ip) ==
    CASE ip = "ip1" -> <<"2", "0", "9", ".", "8", "5", ".", "2", "2", "0", ".", "4", "1">>
      [] ip = "ip2" -> <<"2", "0", "3", ".", "0", ".", "1", "1", "3", ".", "7">>
      [] ip = "ip3" -> <<"4", "0", ".", "1", "0", "7", ".", "2", "2", ".", "1">>
      [] ip = "ip4" -> <<"1", "9", "8", ".", "5", "1", ".", "1", "0", "0", ".", "3", "5">>
      [] ip = "ip5" -> <<"1", "9", "2", ".", "0", ".", "2", ".", "5">>
      [] ip = "ip6" -> <<"1", "9", "2", ".", "0", ".", "2", ".", "6">>
      [] ip = "ip7" -> <<"1", "9", "2", ".", "0", ".", "2", ".", "7">>
      [] ip = NoSourceIp -> Txt.None

DomainText(domain) ==
    CASE domain = "a.com" -> <<"a", ".", "c", "o", "m">>
      [] domain = "b.com" -> <<"b", ".", "c", "o", "m">>

\* The lines of one failed address.  `'209.85.' in ip` is a substring test.
IpLines(ip_info) ==
    LET ip == IpText(ip_info.source_ip)
    IN  Txt.Dash \o ip \o Txt.Colon \o NumberText(ip_info.count) \o Txt.IpMessages
        \o Txt.Dkim \o <<ip_info.dkim>> \o Txt.Spf \o <<ip_info.spf>> \o Txt.CloseLine
        \o (IF Contains(ip, Txt.Ip209) \/ Contains(ip, Txt.Ip172) THEN Txt.Google
            ELSE IF Contains(ip, Txt.Ip40) \/ Contains(ip, Txt.Ip5296) THEN Txt.Microsoft
            ELSE IF Contains(ip, Txt.Ip35) \/ Contains(ip, Txt.Ip52) \/ Contains(ip, Txt.Ip54)
            THEN Txt.Aws
            ELSE Txt.Unknown)

RECURSIVE AllIpLines(_)
AllIpLines(failed_ips) ==
    IF failed_ips = << >> THEN << >>
    ELSE IpLines(Head(failed_ips)) \o AllIpLines(Tail(failed_ips))

ShownFailedIps == 5   \* failed_ips[:5]

\* A fallback that calls a report healthy only above 95%.
FallbackHealthy_Above(auth_rate) == RatLt(RatInt(95), auth_rate)

\* `auth_rate >= 95` of the status line and of 'Issues Found', and the else
\* of `if auth_rate < 95` of the recommendations.
FallbackHealthy(auth_rate) == RatLe(RatInt(95), auth_rate)

\* _get_fallback_analysis: the text, or the TypeError of a substring test on
\* an address that is None.
_get_fallback_analysis(parsed_report) ==
    LET report_records == parsed_report.records
        Failed(rec) == rec.dkim # "pass" \/ rec.spf # "pass"
        total_messages == SumCount(report_records)
        failed_messages == SumCount(SelectSeq(report_records, Failed))
        passed_messages == total_messages - failed_messages
        auth_rate == IF total_messages > 0
                     THEN Rat(100 * passed_messages, total_messages) ELSE RatInt(100)
        failed_ips == SelectSeq(report_records, Failed)
        shown == SubSeq(failed_ips, 1,
                        IF Len(failed_ips) < ShownFailedIps THEN Len(failed_ips)
                        ELSE ShownFailedIps)
        healthy == FallbackHealthy(auth_rate)
        status == IF healthy THEN Txt.Pass
                  ELSE IF RatLe(RatInt(80), auth_rate) THEN Txt.NeedsAttention
                  ELSE Txt.Critical
        range == parsed_report.metadata.date_range
        analysis ==
            Txt.Status \o status
            \o Txt.Rate \o OneDecimal(auth_rate) \o Txt.Percent \o NumberText(passed_messages)
            \o Txt.Slash \o NumberText(total_messages) \o Txt.Messages
            \o DomainText(parsed_report.policy.domain)
            \o Txt.Period \o NumberText(range.begin) \o Txt.To \o NumberText(range.end)
            \o Txt.Results \o NumberText(total_messages)
            \o Txt.Passed \o NumberText(passed_messages)
            \o Txt.Failed \o NumberText(failed_messages) \o Txt.Newline
            \o (IF failed_ips # << >> THEN Txt.Investigation \o AllIpLines(shown) ELSE << >>)
            \o Txt.IssuesFound
            \o (IF healthy THEN Txt.NoneDetected
                ELSE NumberText(failed_messages) \o Txt.FailedAuthentication)
            \o Txt.Recommendations
            \o (IF ~healthy
                THEN (IF \E ip \in Range(failed_ips) : ip.spf # "pass"
                      THEN Txt.FixSpf ELSE << >>)
                     \o (IF \E ip \in Range(failed_ips) : ip.dkim # "pass"
                         THEN Txt.FixDkim ELSE << >>)
                ELSE Txt.WorkingWell)
            \o Txt.Note
    IN  IF \E ip \in Range(shown) : ip.source_ip = NoSourceIp THEN Raised
        ELSE Returned(analysis)

\* The answers of the provider to one requests.post.
Answer(status_code, text) == [raises |-> "none", status_code |-> status_code, text |-> text]

Timeout == [raises |-> "Timeout", status_code |-> 0, text |-> << >>]

OtherException == [raises |-> "Exception", status_code |-> 0, text |-> << >>]

StatusOk == 200
StatusRateLimit == 429
StatusServerError == 500

ProviderAnswers ==
    { Answer(StatusOk, NarrRoutine), Answer(StatusOk, NarrFail), Answer(StatusRateLimit, << >>),
      Answer(StatusServerError, << >>), Timeout, OtherException }

max_retries == 3

retry_delays == <<2, 4, 8>>

\* The loop of analyze_dmarc_report from attempt `attempt` on (counted from 0, as
\* in the code); `slept` are the delays of time.sleep so far.
RECURSIVE AnalyzeFrom(_, _, _, _)
AnalyzeFrom(parsed_report, answers, attempt, slept) ==
    LET response == answers[attempt + 1]
        calls == attempt + 1
        RetryOrFallback ==
            IF attempt < max_retries - 1
            THEN AnalyzeFrom(parsed_report, answers, attempt + 1,
                             Append(slept, retry_delays[attempt + 1]))
            ELSE [calls |-> calls, slept |-> slept,
                  outcome |-> _get_fallback_analysis(parsed_report)]
    IN  IF attempt >= max_retries
        THEN [calls |-> attempt, slept |-> slept,
              outcome |-> _get_fallback_analysis(parsed_report)]
        ELSE IF response.raises = "Timeout" THEN RetryOrFallback
        ELSE IF response.raises # "none" THEN RetryOrFallback
        ELSE IF response.status_code = StatusOk
        THEN [calls |-> calls, slept |-> slept, outcome |-> Returned(response.text)]
        ELSE IF response.status_code = StatusRateLimit THEN RetryOrFallback
        ELSE RetryOrFallback

\* analyze_dmarc_report
analyze_dmarc_report(parsed_report, answers) == AnalyzeFrom(parsed_report, answers, 0, << >>)

(***************************************************************************)
(* The state machine.                                                      *)
(***************************************************************************)
DB == [reports |-> reports, records |-> records, analyses |-> analyses,
       alert_history |-> alert_history, report_seq |-> report_seq]

SetDB(db) ==
    /\ reports' = db.reports
    /\ records' = db.records
    /\ analyses' = db.analyses
    /\ alert_history' = db.alert_history
    /\ report_seq' = db.report_seq

Init ==
    /\ reports = << >>
    /\ records = << >>
    /\ analyses = << >>
    /\ alert_history = << >>
    /\ report_seq = 0
    /\ now = 0
    /\ last_successful_run = None
    /\ last_failed_run = None
    /\ running = {}
    /\ last = [op |-> "init"]

\* main: database.store_report(parsed_report, analysis)
StoreReport(parsed_report, claude_analysis, io_fail) ==
    /\ LET out == store_report(DB, parsed_report, claude_analysis, io_fail, now)
       IN  /\ SetDB(out.db)
           /\ last' = [op |-> "store", result |-> out.result]
    /\ UNCHANGED <<now, markers, running>>

\* main / database_maintenance: database.purge_old_data(retention_days)
PurgeOldData(retention_days, io_fail) ==
    /\ LET out == purge_old_data(DB, retention_days, io_fail, now)
       IN  /\ SetDB(out.db)
           /\ last' = [op |-> "purge", retention_days |-> retention_days,
                       io_fail |-> io_fail, purge_stats |-> out.purge_stats]
    /\ UNCHANGED <<now, markers, running>>

\* main: database.log_alert(domain, 'authentication_issues', ..., sent=True)
LogAlert(domain) ==
    /\ SetDB(log_alert(DB, domain, "authentication_issues",
                       "Multiple thresholds exceeded", TRUE, now))
    /\ last' = [op |-> "log_alert", domain |-> domain]
    /\ UNCHANGED <<now, markers, running>>

\* main: analysis = claude_analyzer.analyze_dmarc_report(parsed_report)
AnalyzeDmarcReport(parsed_report, answers) ==
    /\ \E out \in {analyze_dmarc_report(parsed_report, answers)} :
         last' = [op |-> "analyze", parsed_report |-> parsed_report,
                  answers |-> answers, calls |-> out.calls, slept |-> out.slept,
                  result |-> out.outcome]
    /\ UNCHANGED <<reports, records, analyses, alert_history, report_seq, now, markers,
                   running>>

\* A report with a failing record whose <source_ip/> element has no text.
UnaddressedReport == Parsed("a.com", "r5", -1, <<Rec(NoSourceIp, 3, "fail", "pass")>>)

AnalyzerReports == ParsedReports \cup {UnaddressedReport}

\* Time passes between two runs.
Tick(days) ==
    /\ now + days <= MaxNow
    /\ now' = now + days
    /\ last' = [op |-> "tick"]
    /\ UNCHANGED <<reports, records, analyses, alert_history, report_seq, markers,
                   running>>

\* A caller asks the store for the trend of a domain.
CompareRates == {Rat(733, 10), Rat(100, 3), RatInt(97), RatInt(100)}

CompareWithHistorical(domain, current_auth_rate) ==
    /\ last' = [op |-> "compare", domain |-> domain,
                current_auth_rate |-> current_auth_rate,
                result |-> compare_with_historical(DB, domain, current_auth_rate, now)]
    /\ UNCHANGED <<reports, records, analyses, alert_history, report_seq, now, markers,
                   running>>

\* A caller asks the store for the history of a domain.
DaysBack == {7, 30}

GetHistoricalData(domain, days_back) ==
    /\ last' = [op |-> "historical", domain |-> domain, days_back |-> days_back,
                result |-> get_historical_data(DB, domain, days_back, now)]
    /\ UNCHANGED <<reports, records, analyses, alert_history, report_seq, now, markers,
                   running>>

\* A caller asks the store for the failing records of a report it has stored.
GetFailureDetails(domain, db_report_id) ==
    /\ last' = [op |-> "failures", domain |-> domain, db_report_id |-> db_report_id,
                result |-> get_failure_details(DB, domain, db_report_id)]
    /\ UNCHANGED <<reports, records, analyses, alert_history, report_seq, now, markers,
                   running>>

\* _create_issues_report / _create_clean_status_report: self.db.get_summary_stats()
GetSummaryStats(hours_back) ==
    /\ last' = [op |-> "summary", hours_back |-> hours_back,
                result |-> get_summary_stats(DB, hours_back, now)]
    /\ UNCHANGED <<reports, records, analyses, alert_history, report_seq, now, markers,
                   running>>

\* generate_smart_report / main: self._has_significant_issues(report), by a
\* reporter constructed with the thresholds of the run's configuration.
Classify(thresholds, parsed_report, claude_analysis) ==
    /\ \E decision \in {_has_significant_issues(
                            DB, thresholds,
                            [raw_data |-> parsed_report, claude_analysis |-> claude_analysis],
                            now)} :
         /\ last' = [op |-> "classify", thresholds |-> thresholds,
                     report |-> [raw_data |-> parsed_report,
                                 claude_analysis |-> claude_analysis],
                     result |-> decision]
         /\ SetDB(StoreAfter(DB, ClassifierCalls(decision), now))
    /\ UNCHANGED <<now, markers, running>>

\* main: the narrative of analyze_dmarc_report, and store_report with it.
StoreAnalyzed(parsed_report, answers) ==
    \E analysis \in {analyze_dmarc_report(parsed_report, answers)} :
       /\ ~analysis.outcome.raised
       /\ StoreReport(parsed_report, analysis.outcome.value, "none")

\* main: the narrative of analyze_dmarc_report, and the classifier on it.
ClassifyAnalyzed(thresholds, parsed_report, answers) ==
    \E analysis \in {analyze_dmarc_report(parsed_report, answers)} :
       /\ ~analysis.outcome.raised
       /\ Classify(thresholds, parsed_report, analysis.outcome.value)

\* An analysed report of main's batch: the parsed report, its narrative and the
\* value store_report returned for it (None when the store failed).
Analyzed(parsed_report, claude_analysis, db_report_id) ==
    [raw_data |-> parsed_report, claude_analysis |-> claude_analysis,
     db_report_id |-> db_report_id]

\* The reports of a batch: a clean one, one with a low rate and an empty one.
BatchReports ==
    {p \in ParsedReports : p.policy.domain = "a.com" \/ p.records = << >>}

\* The analysed reports a batch can hold in the current state of the store.
AnalyzedItems ==
    UNION { { Analyzed(p, NarrRoutine, id) :
                id \in {None} \cup
                       {r.id : r \in {x \in Range(reports) : RowKey(x) = ReportKey(p)}} } :
            p \in BatchReports }

MaxBatch == 2   \* analysed reports in one batch

SeqsUpTo(S, n) == UNION {[1..k -> S] : k \in 0..n}

\* main: enhanced_reporter.generate_smart_report(analyzed_reports) and
\* enhanced_reporter.should_send_report(report_data)
GenerateSmartReport(thresholds, notifications, analyzed_reports, io_fail) ==
    /\ \E out \in {generate_smart_report(DB, thresholds, notifications, analyzed_reports,
                                          io_fail, now)} :
         \E calls \in {ComposerCalls(DB, thresholds, notifications, analyzed_reports,
                                      Classified(DB, thresholds, analyzed_reports, "none",
                                                 now),
                                      now)} :
           /\ last' = [op |-> "compose", thresholds |-> thresholds,
                       notifications |-> notifications,
                       analyzed_reports |-> analyzed_reports,
                       io_fail |-> io_fail,
                       calls |-> calls,
                       result |-> out,
                       send |-> IF out.raised THEN FALSE
                                ELSE should_send_report(notifications, out.value)]
           /\ SetDB(StoreAfter(DB, calls, now))
    /\ UNCHANGED <<now, markers, running>>

\* Reports of a.com from many sources: six and seven distinct addresses, two
\* passing messages from each.
IpName == <<"ip1", "ip2", "ip3", "ip4", "ip5", "ip6", "ip7">>

SourceRecords(n) == [i \in 1..n |-> Rec(IpName[i], 2, "pass", "pass")]

ManySources == { Parsed("a.com", "r3", -1, SourceRecords(6)),
                 Parsed("a.com", "r4", -1, SourceRecords(7)) }

\* The recent reports of a.com.
RecentReports ==
    {p \in ParsedReports : p.policy.domain = "a.com" /\ p.metadata.date_range.begin = -1}
      \cup ManySources

(***************************************************************************)
(* main: one run of the monitor.                                           *)
(***************************************************************************)
\* The two marker files of a run.
Files == [last_successful_run |-> last_successful_run, last_failed_run |-> last_failed_run]

\* save_last_run_time
save_last_run_time(files, today) == [files EXCEPT !.last_successful_run = today]

\* A failed run that marks nothing.
mark_run_as_failed_NoMarker(files, today) == files

\* mark_run_as_failed
mark_run_as_failed(files, today) == [files EXCEPT !.last_failed_run = today]

\* CONFIG of the run: the thresholds and notification settings are the defaults.
CONFIG == [thresholds |-> << >>, notifications |-> << >>, retention_days |-> 30]

\* An attachment of a message: a file that extract_xml_from_attachment cannot
\* read, one that parse_xml_content cannot parse, or a report, with the answers
\* of the narrative provider for it and the statement at which its store fails.
Attachment(content, parsed, answers, io_fail) ==
    [content |-> content, parsed |-> parsed, answers |-> answers, io_fail |-> io_fail]

Unreadable == Attachment("unreadable", << >>, << >>, "none")
Unparsable == Attachment("unparsable", << >>, << >>, "none")
ReportFile(parsed, answers, io_fail) == Attachment("report", parsed, answers, io_fail)

\* The result of main's loop over the attachments so far.
Batch(db, analyzed_reports, raised) ==
    [db |-> db, analyzed_reports |-> analyzed_reports, raised |-> raised]

\* One report attachment: analyze, store, append.  While the database is down
\* the first statement of store_report raises.
ProcessReport(batch, attachment, analysis, database, today) ==
    IF analysis.outcome.raised THEN Batch(batch.db, batch.analyzed_reports, TRUE)
    ELSE LET stored == store_report(batch.db, attachment.parsed, analysis.outcome.value,
                                    IF database = "down" THEN "report"
                                    ELSE attachment.io_fail, today)
         IN  Batch(stored.db,
                   Append(batch.analyzed_reports,
                          Analyzed(attachment.parsed, analysis.outcome.value, stored.result)),
                   FALSE)

\* for attachment in attachments: the files that are skipped, and the reports.
RECURSIVE ProcessAttachments(_, _, _, _)
ProcessAttachments(batch, attachments, database, today) ==
    IF attachments = << >> \/ batch.raised THEN batch
    ELSE IF Head(attachments).content # "report"
    THEN ProcessAttachments(batch, Tail(attachments), database, today)
    ELSE ProcessAttachments(
           ProcessReport(batch, Head(attachments),
                         analyze_dmarc_report(Head(attachments).parsed,
                                              Head(attachments).answers),
                         database, today),
           Tail(attachments), database, today)

\* for report in analyzed_reports: log_alert for each significant report.
RECURSIVE LogAlerts(_, _, _)
LogAlerts(db, analyzed_reports, today) ==
    IF analyzed_reports = << >> THEN db
    ELSE LogAlerts(
           IF _has_significant_issues(db, CONFIG.thresholds, Head(analyzed_reports),
                                      today).significant
           THEN log_alert(db, Head(analyzed_reports).raw_data.policy.domain,
                          "authentication_issues", "Multiple thresholds exceeded", TRUE,
                          today)
           ELSE db,
           Tail(analyzed_reports), today)

\* What a run leaves: the store, the marker files, the value main returns, the
\* markers it wrote, the batch it analysed, whether the composer returned, its
\* payload, and what became of the mail.
RunResult(db, files, returned, written, analyzed_reports, composed, report_data, mail) ==
    [db |-> db, files |-> files, returned |-> returned, written |-> written,
     analyzed_reports |-> analyzed_reports, composed |-> composed,
     report_data |-> report_data, mail |-> mail]

\* except Exception: error notification, mark_run_as_failed(), return False
RunFailed(db, files, analyzed_reports, composed, report_data, today) ==
    RunResult(db, mark_run_as_failed(files, today), FALSE, <<"last_failed_run">>,
              analyzed_reports, composed, report_data, "none")

\* save_last_run_time(), return True
RunCompleted(db, files, analyzed_reports, report_data, mail, today) ==
    RunResult(db, save_last_run_time(files, today), TRUE, <<"last_successful_run">>,
              analyzed_reports, TRUE, report_data, mail)

\* main after generate_smart_report: should_send_report, send_email, log_alert.
AfterCompose(batch, composed, files, env, today) ==
    IF composed.raised
    THEN RunFailed(batch.db, files, batch.analyzed_reports, FALSE, NoPayload, today)
    ELSE IF ~should_send_report(CONFIG.notifications, composed.value)
    THEN RunCompleted(batch.db, files, batch.analyzed_reports, composed.value, "none", today)
    ELSE IF env.send = "raises"
    THEN RunFailed(batch.db, files, batch.analyzed_reports, TRUE, composed.value, today)
    ELSE IF env.send = "refused"
    THEN RunCompleted(batch.db, files, batch.analyzed_reports, composed.value, "refused",
                      today)
    ELSE RunCompleted(IF DictGet(composed.value, "has_issues", FALSE)
                      THEN LogAlerts(batch.db, batch.analyzed_reports, today)
                      ELSE batch.db,
                      files, batch.analyzed_reports, composed.value, "sent", today)

\* main after the loop over the messages.
AfterBatch(batch, files, env, today) ==
    IF batch.raised
    THEN RunFailed(batch.db, files, batch.analyzed_reports, FALSE, NoPayload, today)
    ELSE AfterCompose(batch,
                      generate_smart_report(batch.db, CONFIG.thresholds, CONFIG.notifications,
                                            batch.analyzed_reports,
                                            IF env.database = "down" THEN "read" ELSE "none",
                                            today),
                      files, env, today)

\* main after the database maintenance: authentication, get_messages, the loop.
AfterMaintenance(db, files, env, today) ==
    IF ~env.auth
    THEN RunFailed(db, files, << >>, FALSE, NoPayload, today)
    ELSE IF env.fetch = "raises"
    THEN RunFailed(db, files, << >>, FALSE, NoPayload, today)
    ELSE AfterBatch(ProcessAttachments(Batch(db, << >>, FALSE), env.attachments,
                                       env.database, today),
                    files, env, today)

\* A run whose database maintenance comes after the reports are stored.
main_PurgeAfterIngestion(db, files, env, today) ==
    LET run == AfterMaintenance(db, files, env, today)
    IN  IF env.purge_on_startup /\ env.database = "up"
        THEN [run EXCEPT !.db = purge_old_data(run.db, CONFIG.retention_days, "none", today).db]
        ELSE run

\* main.  env is what the run meets: the purge_on_startup setting, whether the
\* mail transport authenticates, whether get_messages returns, the attachments,
\* whether the database can be used (when it is down every statement raises:
\* purge_old_data and store_report catch that, the reads do not), and what
\* send_email does.
main(db, files, env, today) ==
    AfterMaintenance(IF env.purge_on_startup /\ env.database = "up"
                     THEN purge_old_data(db, CONFIG.retention_days, "none", today).db
                     ELSE db,
                     files, env, today)

Env(purge_on_startup, auth, fetch, attachments, database, send) ==
    [purge_on_startup |-> purge_on_startup, auth |-> auth, fetch |-> fetch,
     attachments |-> attachments, database |-> database, send |-> send]

\* What a run of main leaves in the store, in the marker files and to its caller.
RunOfMain(env) ==
    \E out \in {main(DB, Files, env, now)} :
       /\ SetDB(out.db)
       /\ last_successful_run' = out.files.last_successful_run
       /\ last_failed_run' = out.files.last_failed_run
       /\ last' = [op |-> "main", env |-> env, returned |-> out.returned,
                   written |-> out.written, analyzed_reports |-> out.analyzed_reports,
                   composed |-> out.composed, report_data |-> out.report_data,
                   mail |-> out.mail]

\* One run of the monitor, from its start to its end.
Main(env) ==
    /\ RunOfMain(env)
    /\ UNCHANGED <<now, running>>

\* retry_if_failed.should_retry.  The morning job is scheduled at 10:00 and the
\* retry script later in the day, so a marker of today is a marker written
\* after today_morning.
should_retry(files, today) ==
    LET succeeded_today == files.last_successful_run # None
                             /\ files.last_successful_run >= today
        failed_today == files.last_failed_run # None /\ files.last_failed_run >= today
        no_run_today == ~succeeded_today
    IN  IF succeeded_today THEN FALSE
        ELSE IF no_run_today /\ ~failed_today THEN TRUE
        ELSE failed_today

\* The scheduler starts the morning job: python src/dmarc_monitor.py.
StartScheduledRun ==
    /\ "schedule" \notin running
    /\ running' = running \cup {"schedule"}
    /\ last' = [op |-> "start", by |-> "schedule"]
    /\ UNCHANGED <<reports, records, analyses, alert_history, report_seq, now, markers>>

\* retry_if_failed.main: subprocess.run of dmarc_monitor.py when should_retry.
RetryIfFailed ==
    /\ "retry" \notin running
    /\ \E retry \in {should_retry(Files, now)} :
         /\ running' = IF retry THEN running \cup {"retry"} ELSE running
         /\ last' = [op |-> "retry_if_failed", should_retry |-> retry]
    /\ UNCHANGED <<reports, records, analyses, alert_history, report_seq, now, markers>>

\* A run in progress comes to its end: main returns and the process exits.
EndRun(by, env) ==
    /\ by \in running
    /\ RunOfMain(env)
    /\ running' = running \ {by}
    /\ UNCHANGED now

\* The provider answers at once, or never.
AllOk == [i \in 1..max_retries |-> Answer(StatusOk, NarrRoutine)]
AllTimeout == [i \in 1..max_retries |-> Timeout]

\* The attachments of the runs: the clean and the low-rate report of a.com, a
\* report without address while the provider is down, and files that are
\* skipped.  The database is down or send_email fails, not both; a run that
\* purges on startup has one attachment at most.
RunAttachments ==
    { Unreadable, Unparsable,
      ReportFile(Parsed("a.com", "r1", -1,
                        <<Rec("ip1", 19, "pass", "pass"), Rec("ip2", 1, "fail", "pass")>>),
                 AllOk, "none"),
      ReportFile(Parsed("a.com", "r1", -1,
                        <<Rec("ip1", 19, "pass", "pass"), Rec("ip2", 1, "fail", "pass")>>),
                 AllOk, "commit"),
      ReportFile(Parsed("a.com", "r2", -20, <<Rec("ip2", 19, "fail", "fail")>>),
                 AllOk, "none"),
      ReportFile(UnaddressedReport, AllTimeout, "none") }

RunEnvs ==
    {Env(FALSE, FALSE, "ok", << >>, "up", "sent"),
     Env(FALSE, TRUE, "raises", << >>, "up", "sent")}
    \cup {Env(FALSE, TRUE, "ok", a, "up", s) :
            a \in SeqsUpTo(RunAttachments, MaxBatch), s \in {"sent", "refused", "raises"}}
    \cup {Env(FALSE, TRUE, "ok", a, "down", "sent") : a \in SeqsUpTo(RunAttachments, MaxBatch)}
    \cup {Env(TRUE, TRUE, "ok", a, "up", "sent") : a \in SeqsUpTo(RunAttachments, 1)}

StoresOf(env) == Len(SelectSeq(env.attachments, LAMBDA a : a.content = "report"))

\* CONFIG['email']: the defaults of lookback_hours and max_lookback_hours.
DefaultLookbackHours == 24
DefaultMaxLookbackHours == 168

\* get_last_run_time
get_last_run_time(files) == files.last_successful_run

\* calculate_lookback_hours
calculate_lookback_hours(files, today) ==
    LET last_run == get_last_run_time(files)
        hours_since_last_run == (today - last_run) * 24
    IN  IF last_run = None THEN DefaultLookbackHours
        ELSE IF hours_since_last_run > DefaultMaxLookbackHours THEN DefaultMaxLookbackHours
        ELSE hours_since_last_run

\* A message of the reports folder: the day it was received and its attachment.
Message(receivedDateTime, attachment) ==
    [receivedDateTime |-> receivedDateTime, attachment |-> attachment]

\* OutlookClient.get_messages: receivedDateTime ge cutoff_time
get_messages(folder, hours_back, today) ==
    SelectSeq(folder, LAMBDA m : m.receivedDateTime * 24 >= today * 24 - hours_back)

\* The attachments of the messages a run fetches.
AttachmentsOf(messages) == [i \in 1..Len(messages) |-> messages[i].attachment]

\* main with its mail folder: the lookback, the messages, the run over them.
MainOn(folder, files, auth) ==
    /\ \E lookback_hours \in {calculate_lookback_hours(files, now)} :
       \E messages \in {get_messages(folder, lookback_hours, now)} :
       \E out \in {main(DB, files, Env(FALSE, auth, "ok", AttachmentsOf(messages), "up", "sent"),
                         now)} :
          /\ report_seq + Len(messages) <= MaxStores
          /\ SetDB(out.db)
          /\ last_successful_run' = out.files.last_successful_run
          /\ last_failed_run' = out.files.last_failed_run
          /\ last' = [op |-> "main", backlog |-> files # Files, folder |-> folder,
                      lookback_hours |-> lookback_hours, messages |-> messages,
                      returned |-> out.returned]
    /\ UNCHANGED <<now, running>>

\* A scheduled run on the mail folder.
MonitorRun(folder, auth) == MainOn(folder, Files, auth)

\* catchup_backlog.main: os.remove(last_run_file), then dmarc_main().
CatchupBacklog(folder, auth) ==
    MainOn(folder, [Files EXCEPT !.last_successful_run = None], auth)

\* The days before today on which the messages of the folder were received.
MessageAges == {0, 3, 10}

\* The mail folder today, newest first ($orderby receivedDateTime desc).
FolderMessages(today) ==
    <<Message(today, ReportFile(Parsed("a.com", "r1", -1,
                                       <<Rec("ip1", 19, "pass", "pass"),
                                         Rec("ip2", 1, "fail", "pass")>>), AllOk, "none")),
      Message(today - 3, ReportFile(Parsed("a.com", "r2", -20,
                                           <<Rec("ip2", 19, "fail", "fail")>>), AllOk, "none")),
      Message(today - 10, ReportFile(Parsed("b.com", "r2", -20, << >>), AllOk, "none"))>>

\* The folders a run can meet: any of these messages, newest first.
Folders(today) ==
    {SelectSeq(FolderMessages(today), LAMBDA m : m.receivedDateTime \in received) :
       received \in SUBSET {today - age : age \in MessageAges}}

NextCatchup ==
    \/ \E folder \in Folders(now), auth \in BOOLEAN : MonitorRun(folder, auth)
    \/ \E folder \in Folders(now), auth \in BOOLEAN : CatchupBacklog(folder, auth)
    \/ \E d \in TickDays : Tick(d)

NextRun ==
    \/ \E env \in RunEnvs : report_seq + StoresOf(env) <= MaxStores /\ Main(env)
    \/ Tick(31)

NextStore ==
    \/ \E p \in ParsedReports, c \in StoredNarratives \cup {NoneText}, f \in StoreFailPoints :
         report_seq < MaxStores /\ StoreReport(p, c, f)
    \/ \E n \in RetentionDays, f \in PurgeFailPoints : PurgeOldData(n, f)
    \/ \E d \in TickDays : Tick(d)

NextHistory ==
    \/ NextStore
    \/ \E d \in Domains, n \in DaysBack : GetHistoricalData(d, n)
    \/ \E d \in Domains, id \in 1..report_seq : GetFailureDetails(d, id)

NextCompare ==
    \/ NextStore
    \/ \E d \in Domains, r \in CompareRates : CompareWithHistorical(d, r)

NextClassify ==
    \/ NextStore
    \/ \E th \in ThresholdConfigs, p \in ParsedReports, c \in Narratives : Classify(th, p, c)

Next ==
    \/ NextStore
    \/ \E d \in Domains, n \in DaysBack : GetHistoricalData(d, n)
    \/ \E d \in Domains, id \in 1..report_seq : GetFailureDetails(d, id)
    \/ \E d \in Domains, r \in CompareRates : CompareWithHistorical(d, r)
    \/ \E th \in ThresholdConfigs, p \in ParsedReports, c \in Narratives : Classify(th, p, c)

\* The store alone.
SpecStore == Init /\ [][NextStore]_vars

\* The store and its history and failure queries.
SpecHistory == Init /\ [][NextHistory]_vars

\* The store and its trend query.
SpecCompare == Init /\ [][NextCompare]_vars

NextSources ==
    \/ \E p \in RecentReports :
         report_seq < MaxSourceStores /\ StoreReport(p, NarrRoutine, "none")
    \/ \E d \in TickDays : Tick(d)
    \/ \E th \in ThresholdConfigs, p \in RecentReports, c \in {NarrRoutine, NarrNoIssues} :
         Classify(th, p, c)

NextCompose ==
    \/ \E p \in BatchReports :
         report_seq < MaxStores /\ StoreReport(p, NarrRoutine, "none")
    \/ \E n \in NotificationConfigs, b \in SeqsUpTo(AnalyzedItems, MaxBatch) :
         GenerateSmartReport(<< >>, n, b, "none")
    \/ \E b \in SeqsUpTo(AnalyzedItems, MaxBatch) : GenerateSmartReport(<< >>, << >>, b, "read")

MaxSummaryNow == 2   \* days that pass between the stores and the summary

NextSummary ==
    \/ \E p \in BatchReports, c \in {NarrRoutine, NarrFail} :
         report_seq < MaxStores /\ StoreReport(p, c, "none")
    \/ now < MaxSummaryNow /\ Tick(1)
    \/ \E h \in {24, 48} : GetSummaryStats(h)

MaxScheduleDays == 2   \* days of the schedule

\* The runs the scheduler starts: one that succeeds on an empty folder, one
\* that stores a report, one whose authentication fails.
ScheduleEnvs ==
    {Env(FALSE, TRUE, "ok", << >>, "up", "sent"),
     Env(FALSE, TRUE, "ok",
         <<ReportFile(Parsed("a.com", "r2", -20, <<Rec("ip2", 19, "fail", "fail")>>),
                      AllOk, "none")>>, "up", "sent"),
     Env(FALSE, FALSE, "ok", << >>, "up", "sent")}

NextSchedule ==
    \/ StartScheduledRun
    \/ RetryIfFailed
    \/ \E by \in running, env \in ScheduleEnvs :
         report_seq + StoresOf(env) <= MaxStores /\ EndRun(by, env)
    \/ now < MaxScheduleDays /\ Tick(1)

MaxFallbackStores == 1   \* committed stores in a behaviour of SpecFallback
MaxFallbackNow == 7      \* last day the clock of SpecFallback reaches

\* The provider answers 'routine' or 'no issues' at once, or never answers.
FallbackAnswers ==
    {AllOk, AllTimeout, [i \in 1..max_retries |-> Answer(StatusOk, NarrNoIssues)]}

\* The reports of SpecFallback: those of a batch, and one of many sources.
FallbackReports == BatchReports \cup {Parsed("a.com", "r3", -1, SourceRecords(6))}

NextFallback ==
    \/ \E p \in BatchReports :
         report_seq < MaxFallbackStores /\ StoreReport(p, NarrRoutine, "none")
    \/ now + 7 <= MaxFallbackNow /\ Tick(7)
    \/ \E th \in ThresholdConfigs, p \in FallbackReports, a \in {AllOk, AllTimeout} :
         ClassifyAnalyzed(th, p, a)

NextFlag ==
    \/ \E p \in BatchReports, a \in FallbackAnswers :
         report_seq < MaxFallbackStores /\ StoreAnalyzed(p, a)
    \/ now + 7 <= MaxFallbackNow /\ Tick(7)
    \/ \E p \in BatchReports, a \in FallbackAnswers : ClassifyAnalyzed(<< >>, p, a)

NextPurge ==
    \/ \E p \in ParsedReports :
         report_seq < MaxStores /\ StoreReport(p, NarrRoutine, "none")
    \/ \E d \in Domains : Len(alert_history) < MaxAlerts /\ LogAlert(d)
    \/ \E n \in RetentionDays, f \in PurgeFailPoints : PurgeOldData(n, f)
    \/ \E d \in TickDays : Tick(d)

NextAnalyze ==
    \E p \in AnalyzerReports, a \in [1..max_retries -> ProviderAnswers] :
       AnalyzeDmarcReport(p, a)

\* The store and the issue classifier.
SpecClassify == Init /\ [][NextClassify]_vars

\* Stores of recent reports of one domain, and the classifier.
SpecSources == Init /\ [][NextSources]_vars

\* The store, the alert log and the purge.
SpecPurge == Init /\ [][NextPurge]_vars

\* The narrative provider and its fallback.
SpecAnalyze == Init /\ [][NextAnalyze]_vars

\* The runs of the monitor.
SpecRun == Init /\ [][NextRun]_vars

\* Stores on successive days, and the summary of the composer.
SpecSummary == Init /\ [][NextSummary]_vars

\* The scheduler, the retry script and the runs they start.
SpecSchedule == Init /\ [][NextSchedule]_vars

\* The scheduled runs and the catch-up script on the mail folder.
SpecCatchup == Init /\ [][NextCatchup]_vars

\* The store, and the classifier on the narrative of the analyser.
SpecFallback == Init /\ [][NextFallback]_vars

\* The store and the classifier, both on the narrative of the analyser.
SpecFlag == Init /\ [][NextFlag]_vars

\* The store and the report composer.
SpecCompose == Init /\ [][NextCompose]_vars

Spec == Init /\ [][Next]_vars

(***************************************************************************)
(* What the claims speak about.                                            *)
(***************************************************************************)
OwnedRecords(id) == SelectSeq(records, LAMBDA rec : rec.report_id = id)

AnalysesOf(id) == SelectSeq(analyses, LAMBDA a : a.report_id = id)

PassBothRow(rec) == rec.dkim_result = "pass" /\ rec.spf_result = "pass"

\* 100 * (counts of the fully passing record rows) / (counts of all record rows)
RateOfRecordRows(id) ==
    Rat(100 * SumCount(SelectSeq(OwnedRecords(id), PassBothRow)), SumCount(OwnedRecords(id)))

\* A record row holds the values of a parsed record.
RowOfRecord(row, rec) ==
    /\ row.source_ip = rec.source_ip
    /\ row.count = rec.count
    /\ row.dkim_result = rec.dkim
    /\ row.spf_result = rec.spf

\* C1: storing a report that is already stored returns the identifier of the
\* stored row and leaves the number of record rows of that report as it was.
C1_StoreIsIdempotent ==
    [][\A p \in ParsedReports, c \in StoredNarratives :
         (/\ StoreReport(p, c, "none")
          /\ \E r \in Range(reports) : RowKey(r) = ReportKey(p))
         => /\ last'.result = SelectReportId(reports, p)
            /\ Len(SelectSeq(records', LAMBDA rec : rec.report_id = last'.result))
                 = Len(OwnedRecords(last'.result))]_vars

\* C2: every report row has exactly one analysis row.
C2_OneAnalysisPerReport ==
    \A r \in Range(reports) : Len(AnalysesOf(r.id)) = 1

\* C3: the counts of the record rows of a report add up to the report's
\* total message volume.
C3_RecordCountsAddUp ==
    \A r \in Range(reports) : SumCount(OwnedRecords(r.id)) = r.total_messages

\* A report row has an analysis row and a record row for each of its records.
C4_ReportIsWhole(r) ==
    /\ AnalysesOf(r.id) # << >>
    /\ Len(OwnedRecords(r.id)) >= Len(ParsedOf(r).records)
    /\ \A rec \in Range(ParsedOf(r).records) :
         \E row \in Range(OwnedRecords(r.id)) : RowOfRecord(row, rec)

C4_NoPartialReport == \A r \in Range(reports) : C4_ReportIsWhole(r)

NoHistory(domain) == HistoricalWindow(DB, domain, now) = << >>

\* C7: with no report of the domain in the historical window, the comparison
\* returns the current rate, rounded to one decimal, as the historical
\* average, a change of 0 and the trend stable.
C7_FirstReportIsStable ==
    (last.op = "compare" /\ NoHistory(last.domain)) =>
      /\ last.result.historical_avg = Round1(last.current_auth_rate)
      /\ last.result.historical_avg = last.result.current_rate
      /\ last.result.change = RatInt(0)
      /\ last.result.trend = "stable"

\* C7 as claimed: the historical average returned is the current rate itself.
C7_AsClaimed ==
    (last.op = "compare" /\ NoHistory(last.domain)) =>
      /\ last.result.historical_avg = last.current_auth_rate
      /\ last.result.change = RatInt(0)
      /\ last.result.trend = "stable"

\* The first report of a domain has just been stored and is compared.
C7_Witness ==
    /\ last.op = "compare"
    /\ NoHistory(last.domain)
    /\ \E r \in Range(reports) : r.domain = last.domain /\ r.processed_at = now
    /\ last.current_auth_rate = Rat(100, 3)

\* The reports of the domain processed between 30 and 7 days ago.
C8_WindowReports(domain) ==
    {r \in Range(reports) : /\ r.domain = domain
                            /\ r.processed_at <= now - 7
                            /\ r.processed_at >= now - 30
                            /\ AnalysesOf(r.id) # << >>}

RECURSIVE C8_SumOfRates(_)
C8_SumOfRates(rs) ==
    IF rs = {} THEN RatInt(0)
    ELSE LET r == CHOOSE x \in rs : TRUE
         IN  RatAdd(Head(AnalysesOf(r.id)).auth_success_rate, C8_SumOfRates(rs \ {r}))

C8_Mean(domain) ==
    RatDivInt(C8_SumOfRates(C8_WindowReports(domain)), Cardinality(C8_WindowReports(domain)))

\* C8: with reports of the domain in the historical window, the historical
\* average is the mean rate of those reports, the change is the current rate
\* less that mean (both as returned, to one decimal), and the trend is
\* improved above +2, declined below -2, stable otherwise.
C8_HistoricalMean ==
    (last.op = "compare" /\ C8_WindowReports(last.domain) # {}) =>
      LET mean == C8_Mean(last.domain)
          delta == RatSub(last.current_auth_rate, mean)
      IN  /\ last.result.historical_avg = Round1(mean)
          /\ last.result.change = Round1(delta)
          /\ last.result.trend =
               (IF RatLt(RatInt(2), delta) THEN "improved"
                ELSE IF RatLt(delta, RatInt(-2)) THEN "declined" ELSE "stable")

\* The thresholds a configuration sets, by the defaults the claims name.
C9_Minimum(th) ==
    IF "minimum_messages_for_alert" \in DOMAIN th THEN th.minimum_messages_for_alert ELSE 10

C10_RateMinimum(th) ==
    IF "auth_success_rate_min" \in DOMAIN th THEN th.auth_success_rate_min ELSE RatInt(95)

ClassifiedTotal == SumCount(last.report.raw_data.records)

ClassifiedRate ==
    Rat(100 * SumCount(SelectSeq(last.report.raw_data.records, PassBoth)), ClassifiedTotal)

\* C9: a report with fewer messages than the configured minimum is never
\* classified significant.
C9_LowVolumeNeverSignificant ==
    (last.op = "classify" /\ ClassifiedTotal < C9_Minimum(last.thresholds)) =>
      ~last.result.significant

\* A report below the volume minimum, with a low rate and a narrative that
\* names a failure, was classified.
C9_Witness ==
    /\ last.op = "classify"
    /\ ClassifiedTotal > 0
    /\ ClassifiedTotal < C9_Minimum(last.thresholds)
    /\ RatLt(ClassifiedRate, C10_RateMinimum(last.thresholds))
    /\ last.report.claude_analysis = NarrFail

C11_DropThreshold(th) ==
    IF "auth_rate_drop_threshold" \in DOMAIN th THEN th.auth_rate_drop_threshold ELSE RatInt(5)

\* The delta of the historical comparison: 0 without history, else the current
\* rate less the mean rate of the reports in the window, to one decimal.
C11_Delta(domain, rate) ==
    IF C8_WindowReports(domain) = {} THEN RatInt(0)
    ELSE Round1(RatSub(rate, C8_Mean(domain)))

ClassifiedDomain == last.report.raw_data.policy.domain

\* The classified report passes the volume check and the rate check.
PassesVolumeAndRate ==
    /\ last.op = "classify"
    /\ ClassifiedTotal >= C9_Minimum(last.thresholds)
    /\ ClassifiedTotal > 0
    /\ ~RatLt(ClassifiedRate, C10_RateMinimum(last.thresholds))

\* C11: a report that passes the volume and rate checks is made significant by
\* the delta check exactly when the absolute delta of its historical
\* comparison is at least the drop threshold, whatever the narrative.
C11_DeltaCheckDecides ==
    PassesVolumeAndRate =>
      LET big == RatLe(C11_DropThreshold(last.thresholds),
                       RatAbs(C11_Delta(ClassifiedDomain, ClassifiedRate)))
      IN  /\ big => last.result.significant
          /\ ~big => last.result.decided_by # "change"

\* The new-sources threshold a configuration sets, by the default the claim names.
C12_NewSourcesThreshold(th) ==
    IF "new_sources_threshold" \in DOMAIN th THEN th.new_sources_threshold ELSE 3

\* The reports of the domain whose period starts in the trailing 7 days.
C12_RecentReports(domain) ==
    {r \in Range(reports) : r.domain = domain /\ r.date_begin >= now - 7}

\* The distinct source addresses among the records of a stored report.
C12_DistinctSources(r) ==
    Cardinality({rec.source_ip : rec \in Range(OwnedRecords(r.id))})

RECURSIVE C12_SumOfSources(_)
C12_SumOfSources(rs) ==
    IF rs = {} THEN 0
    ELSE LET r == CHOOSE x \in rs : TRUE
         IN  C12_DistinctSources(r) + C12_SumOfSources(rs \ {r})

ClassifiedSources ==
    Cardinality({rec.source_ip : rec \in Range(last.report.raw_data.records)})

\* The classified report passes the volume, rate and delta checks.
PassesVolumeRateAndDelta ==
    /\ PassesVolumeAndRate
    /\ ~RatLe(C11_DropThreshold(last.thresholds),
              RatAbs(C11_Delta(ClassifiedDomain, ClassifiedRate)))

\* The distinct sources of the classified report exceed the average of the
\* domain's recent reports plus the threshold (n > sum / k + t, in integers).
C12_ExceedsAverage ==
    LET recent == C12_RecentReports(ClassifiedDomain)
        k == Cardinality(recent)
    IN  /\ recent # {}
        /\ ClassifiedSources * k >
             C12_SumOfSources(recent) + C12_NewSourcesThreshold(last.thresholds) * k

\* C12: a report that passes the volume, rate and delta checks is significant
\* when its distinct sources exceed the average distinct-source count of the
\* domain's reports of the trailing 7 days plus the new-sources threshold; the
\* sources check fires in no other case, and never without such reports.
C12_SourcesCheckDecides ==
    PassesVolumeRateAndDelta =>
      /\ C12_ExceedsAverage => last.result.significant
      /\ ~C12_ExceedsAverage => last.result.decided_by # "sources"

\* The narratives that hold a positive keyword ('no issues') and those that
\* hold an issue keyword ('fail', 'issue', 'error'), case ignored.
C13_HasPositiveKeyword(narrative) == narrative = NarrNoIssues

C13_HasIssueKeyword(narrative) == narrative \in {NarrFail, NarrNoIssues, NarrError}

\* The classified report reaches the narrative step: it passes the volume
\* check and no numeric check (rate, delta, new sources) triggers.
NoNumericCheckTriggers ==
    /\ PassesVolumeRateAndDelta
    /\ ~C12_ExceedsAverage

Composed == last.op = "compose" /\ ~last.result.raised

\* The reports of the composed batch that the classifier calls significant.
C14_SignificantCount ==
    Cardinality({i \in DOMAIN last.analyzed_reports :
                   _has_significant_issues(DB, last.thresholds, last.analyzed_reports[i],
                                           now).significant})

C14_CleanStatusEnabled ==
    IF "send_clean_status" \in DOMAIN last.notifications
    THEN last.notifications.send_clean_status ELSE TRUE

C14_IsNoReportsPayload(payload) ==
    /\ "no_reports" \in DOMAIN payload /\ payload.no_reports
    /\ "has_issues" \in DOMAIN payload /\ ~payload.has_issues

C14_IsIssuesPayload(payload) ==
    /\ "has_issues" \in DOMAIN payload /\ payload.has_issues
    /\ "issue_count" \in DOMAIN payload

C14_IsCleanPayload(payload) ==
    /\ "clean_count" \in DOMAIN payload
    /\ "has_issues" \in DOMAIN payload /\ ~payload.has_issues
    /\ "no_reports" \notin DOMAIN payload

\* C14: the payload that generate_smart_report returns is the no-reports
\* payload for an empty batch, the issues payload whose issue_count is the
\* number of significant reports when at least one report is significant,
\* and otherwise the clean payload when clean-status notifications are
\* enabled and no payload when they are disabled.
C14_PayloadShape ==
    Composed =>
      LET payload == last.result.value
      IN  IF last.analyzed_reports = << >> THEN C14_IsNoReportsPayload(payload)
          ELSE IF C14_SignificantCount > 0
          THEN C14_IsIssuesPayload(payload) /\ payload.issue_count = C14_SignificantCount
          ELSE IF C14_CleanStatusEnabled
          THEN C14_IsCleanPayload(payload) /\ payload.clean_count = Len(last.analyzed_reports)
          ELSE payload = NoPayload

\* A batch of a significant and a clean report was composed into an issues
\* payload that counts one issue and holds the failure rows of a stored report.
C14_Witness ==
    /\ Composed
    /\ Len(last.analyzed_reports) = 2
    /\ C14_SignificantCount = 1
    /\ C14_IsIssuesPayload(last.result.value)
    /\ last.result.value.issue_count = 1
    /\ last.result.value.failure_details[1] # << >>

C15_QuietModeEnabled ==
    IF "quiet_mode" \in DOMAIN last.notifications
    THEN last.notifications.quiet_mode ELSE TRUE

\* C15: a payload is dispatched only if it is an issues payload, or a clean
\* payload while clean-status notifications are enabled, or a no-reports
\* payload while quiet mode is disabled.
C15_DispatchGate ==
    (Composed /\ last.send) =>
      LET payload == last.result.value
      IN  \/ C14_IsIssuesPayload(payload)
          \/ C14_IsCleanPayload(payload) /\ C14_CleanStatusEnabled
          \/ C14_IsNoReportsPayload(payload) /\ ~C15_QuietModeEnabled

\* C18: no exception leaves the composer: generate_smart_report, with the
\* classification of each report and the builder it chooses, returns a
\* payload or no payload for every batch and every state of the store.
C18_NoExceptionPropagates ==
    last.op = "compose" => ~last.result.raised

(***************************************************************************)
(* The purge.                                                              *)
(***************************************************************************)
\* C16: a purge that runs to its end deletes every report whose period start
\* precedes the cutoff, the records and analyses of those reports and every
\* alert older than the cutoff, whether or not a report is that old, and the
\* counts it returns are the numbers of rows removed from the four tables.
C16_PurgeDeletesOld ==
    [][(last'.op = "purge" /\ last'.io_fail = "none") =>
         LET cutoff == now - last'.retention_days
             old_ids == {r.id : r \in {x \in Range(reports) : x.date_begin < cutoff}}
             stats == last'.purge_stats
         IN  /\ \A r \in Range(reports') : ~(r.date_begin < cutoff)
             /\ \A row \in Range(records') : row.report_id \notin old_ids
             /\ \A row \in Range(analyses') : row.report_id \notin old_ids
             /\ \A a \in Range(alert_history') : ~(a.created_at < cutoff)
             /\ stats.reports_deleted = Len(reports) - Len(reports')
             /\ stats.records_deleted = Len(records) - Len(records')
             /\ stats.analyses_deleted = Len(analyses) - Len(analyses')
             /\ stats.alerts_deleted = Len(alert_history) - Len(alert_history')]_vars

(***************************************************************************)
(* The narrative of a report.                                              *)
(***************************************************************************)
\* The first answer of the provider that is a success, 0 when there is none.
C17_FirstSuccess ==
    LET ok == {i \in 1..max_retries : /\ last.answers[i].raises = "none"
                                      /\ last.answers[i].status_code = StatusOk}
    IN  IF ok = {} THEN 0 ELSE CHOOSE i \in ok : \A j \in ok : i <= j

C17_FailedCount ==
    SumCount(SelectSeq(last.parsed_report.records,
                       LAMBDA rec : rec.dkim # "pass" \/ rec.spf # "pass"))

\* C17: analyze_dmarc_report calls the provider at most three times; it
\* returns the narrative of the first successful answer, and when the three
\* answers all fail it returns the fallback narrative with the message counts
\* of the report, and never raises.
C17_AnalyzeReturns ==
    last.op = "analyze" =>
      /\ last.calls <= 3
      /\ ~last.result.raised
      /\ IF C17_FirstSuccess # 0
         THEN /\ last.result.value = last.answers[C17_FirstSuccess].text
              /\ last.calls = C17_FirstSuccess
         ELSE /\ last.calls = 3
              /\ Contains(last.result.value, Txt.Note)
              /\ Contains(last.result.value,
                          Txt.Results \o NumberText(SumCount(last.parsed_report.records))
                          \o Txt.Passed)
              /\ Contains(last.result.value,
                          Txt.Failed \o NumberText(C17_FailedCount) \o Txt.Newline)

(***************************************************************************)
(* The runs of the monitor.                                                *)
(***************************************************************************)
C19_ReportFiles == SelectSeq(last.env.attachments, LAMBDA a : a.content = "report")

C19_StoreFails(a) ==
    a.content = "report" /\ (a.io_fail # "none" \/ last.env.database = "down")

\* A run in which the store of a report fails, or in which an attachment cannot
\* be read or parsed while the database is up, and in which the mail transport
\* and the narrative provider do what is asked of them.
C19_Case ==
    /\ last.op = "main"
    /\ last.env.auth /\ last.env.fetch = "ok" /\ last.env.send # "raises"
    /\ \A a \in Range(C19_ReportFiles) : a.answers = AllOk
    /\ \/ \E a \in Range(last.env.attachments) : C19_StoreFails(a)
       \/ /\ last.env.database = "up"
          /\ \E a \in Range(last.env.attachments) : a.content # "report"

\* C19: a run in which a store fails or an attachment is unreadable is not
\* aborted: it returns success, every report of the batch is analysed in the
\* order of the attachments, and a report whose store failed is classified
\* and composed with the identifier None.
C19_RunSurvives ==
    C19_Case =>
      /\ last.returned
      /\ last.composed
      /\ Len(last.analyzed_reports) = Len(C19_ReportFiles)
      /\ \A i \in DOMAIN last.analyzed_reports :
            /\ last.analyzed_reports[i].raw_data = C19_ReportFiles[i].parsed
            /\ C19_StoreFails(C19_ReportFiles[i])
                 => last.analyzed_reports[i].db_report_id = None

\* Whether a run meets a failure that main does not survive: the mail
\* transport does not authenticate, or an exception leaves get_messages, the
\* analysis of a report, the report composer (the database is down) or
\* send_email.
C20_AuthFails(run) == ~run.env.auth

C20_ExceptionEscapes(run) ==
    /\ run.env.auth
    /\ \/ run.env.fetch = "raises"
       \/ \E a \in Range(run.env.attachments) :
            a.content = "report" /\ analyze_dmarc_report(a.parsed, a.answers).outcome.raised
       \/ run.env.database = "down"
       \/ /\ run.env.send = "raises"
          /\ run.composed
          /\ should_send_report(CONFIG.notifications, run.report_data)

\* C20: every run writes exactly one marker.  A run in which authentication
\* fails or an exception escapes writes the time of the run to last_failed_run,
\* returns failure and leaves last_successful_run as it was; every other run
\* reaches the end, writes the time of the run to last_successful_run, returns
\* success and leaves last_failed_run as it was.
C20_OneMarker ==
    [][ last'.op = "main" =>
          /\ Len(last'.written) = 1
          /\ IF C20_AuthFails(last') \/ C20_ExceptionEscapes(last')
             THEN /\ ~last'.returned
                  /\ last'.written = <<"last_failed_run">>
                  /\ last_failed_run' = now
                  /\ last_successful_run' = last_successful_run
             ELSE /\ last'.returned
                  /\ last'.written = <<"last_successful_run">>
                  /\ last_successful_run' = now
                  /\ last_failed_run' = last_failed_run ]_vars

\* A run fails on an exception after a report of its batch was stored, a month
\* after a run that succeeded: the old success marker is still there.
C20_Witness ==
    /\ last.op = "main"
    /\ C20_ExceptionEscapes(last)
    /\ Len(last.analyzed_reports) >= 1
    /\ ~last.returned
    /\ last_failed_run = now
    /\ last_successful_run # None
    /\ last_successful_run < now

(***************************************************************************)
(* The reporter and the store.                                             *)
(***************************************************************************)
\* C21: the classifier and the composer only read the store: a compose, with
\* the classification of each report of its batch and the dispatch decision
\* that follows it, leaves reports, records, analyses and alert_history as
\* they were, whatever the batch, the settings and the store.
C21_ComposeOnlyReads ==
    [][ last'.op = "compose" =>
          /\ reports' = reports
          /\ records' = records
          /\ analyses' = analyses
          /\ alert_history' = alert_history ]_vars

\* A compose of an issues payload over a store that holds the report: the
\* classifier and the builder have both read.
C21_Witness ==
    /\ last.op = "compose"
    /\ reports # << >>
    /\ ~last.result.raised
    /\ DictGet(last.result.value, "has_issues", FALSE)
    /\ last.send
    /\ \E i \in DOMAIN last.calls : last.calls[i] = "get_failure_details"
    /\ \E b \in Range(last.analyzed_reports) :
         ClassifierCalls(_has_significant_issues(DB, last.thresholds, b, now)) # << >>

\* Whether an entry of a section names an address.
C22_Names(entry, ip) ==
    \/ ip \in {entry.summary.server} \cup Range(entry.summary.of)
    \/ ip \in Range(entry.technical_note)
    \/ ip \in {entry.legitimacy, entry.action}

\* C22: in an issues payload, the section of every significant report that
\* has an identifier and failing records is a detailed failure analysis with
\* recommended actions, and it has one entry per failing address, which names
\* that address.
C22_BodyNamesFailingIps ==
    (/\ last.op = "compose"
     /\ ~last.result.raised
     /\ DictGet(last.result.value, "has_issues", FALSE))
      => \A i \in DOMAIN last.result.value.failure_details :
            last.result.value.failure_details[i] # << >>
              => /\ "DETAILED FAILURE ANALYSIS" \in Range(last.result.value.body[i].headings)
                 /\ "RECOMMENDED ACTIONS" \in Range(last.result.value.body[i].headings)
                 /\ Len(last.result.value.body[i].entries)
                      = Len(last.result.value.failure_details[i])
                 /\ \A k \in DOMAIN last.result.value.failure_details[i] :
                      C22_Names(last.result.value.body[i].entries[k],
                                last.result.value.failure_details[i][k].source_ip)

(***************************************************************************)
(* The delays between the calls of the narrative provider.                 *)
(***************************************************************************)
\* The attempts of the last analysis that failed before it returned or gave up.
C23_FailedAttempts ==
    IF \E i \in 1..3 : last.answers[i].raises = "none" /\ last.answers[i].status_code = 200
    THEN (CHOOSE i \in 1..3 :
            /\ last.answers[i].raises = "none" /\ last.answers[i].status_code = 200
            /\ \A j \in 1..(i - 1) :
                 ~(last.answers[j].raises = "none" /\ last.answers[j].status_code = 200)) - 1
    ELSE 3

\* C23: the retry backs off over three attempts: it waits 2 seconds after the
\* first failed attempt, 4 after the second and 8 after the third, and then
\* gives up with the fallback analysis.
C23_BackoffDelays ==
    last.op = "analyze" => last.slept = SubSeq(<<2, 4, 8>>, 1, C23_FailedAttempts)

(***************************************************************************)
(* The summary statistics.                                                 *)
(***************************************************************************)
\* The reports processed in the trailing window of the last summary, each once.
C24_Window ==
    SelectSeq(reports, LAMBDA r : r.processed_at >= now - (last.hours_back \div 24))

\* The analysis of a report: the last row stored for it.
C24_AnalysisOf(r) ==
    analyses[CHOOSE i \in DOMAIN analyses :
               /\ analyses[i].report_id = r.id
               /\ \A j \in DOMAIN analyses : analyses[j].report_id = r.id => j <= i]

C24_Analyses == [i \in 1..Len(C24_Window) |-> C24_AnalysisOf(C24_Window[i])]

\* C24: summary_stats aggregates exactly the reports processed in the trailing
\* window, each once: their number, the number of them whose issues flag is
\* set, the clean count as the difference, the sum of their volumes and, when
\* the window is not empty, the mean of their rates, whatever that mean is.
C24_SummaryStats ==
    last.op = "summary" =>
      /\ last.result.total_reports = Len(C24_Window)
      /\ last.result.reports_with_issues
           = Len(SelectSeq(C24_Analyses, LAMBDA a : a.has_issues))
      /\ last.result.clean_reports
           = last.result.total_reports - last.result.reports_with_issues
      /\ last.result.total_messages
           = SumCount([i \in 1..Len(C24_Window) |-> [count |-> C24_Window[i].total_messages]])
      /\ C24_Window # << >>
           => last.result.avg_auth_rate
                = Round1(RatDivInt(SumRate(C24_Analyses), Len(C24_Window)))

(***************************************************************************)
(* The database maintenance of a run.                                      *)
(***************************************************************************)
\* The reports of the last run that store_report stored.
C25_Stored == SelectSeq(last.analyzed_reports, LAMBDA item : item.db_report_id # None)

\* Whether a row of the reports table is older than the retention period.
C25_Old(row) == row.date_begin < now - CONFIG.retention_days

\* C25: in a run that purges, the purge is complete before the first
\* store_report of the run and is not called once the ingestion has begun:
\* the purge has removed every old row the run found in the store, and every
\* report the run stores is in the store when the run ends, whatever its age.
C25_PurgeBeforeIngestion ==
    [][ (last'.op = "main" /\ last'.env.purge_on_startup) =>
          /\ \A i \in DOMAIN last'.analyzed_reports :
                last'.analyzed_reports[i].db_report_id # None
                  => \E r \in Range(reports') :
                        /\ r.id = last'.analyzed_reports[i].db_report_id
                        /\ RowKey(r) = ReportKey(last'.analyzed_reports[i].raw_data)
          /\ \A r \in Range(reports') :
                r.date_begin < now - CONFIG.retention_days
                  => /\ r \notin Range(reports)
                     /\ \E i \in DOMAIN last'.analyzed_reports :
                           last'.analyzed_reports[i].db_report_id = r.id ]_vars

\* A run that purges on startup has stored a report older than the retention
\* period, after the purge removed the old rows it found.
C25_Witness ==
    /\ last.op = "main" /\ last.env.purge_on_startup
    /\ Len(reports) < report_seq
    /\ \E r \in Range(reports) :
          /\ C25_Old(r)
          /\ \E i \in DOMAIN C25_Stored : C25_Stored[i].db_report_id = r.id

(***************************************************************************)
(* The scheduler and the retry script.                                     *)
(***************************************************************************)
\* C26: no two runs of the monitor overlap: the scheduled run and the retry
\* script are driven by the two marker files, and a second run is never
\* started while an earlier run is in progress.
C26_NoOverlap == Cardinality(running) <= 1

(***************************************************************************)
(* The catch-up script.                                                    *)
(***************************************************************************)
\* C27: the catch-up script processes all reports of the reports folder: after
\* it has removed the last-successful-run marker and called main, the lookback
\* of the run covers every message of the folder, whatever its age.
C27_CatchupCoversFolder ==
    (last.op = "main" /\ last.backlog) => last.messages = last.folder

(***************************************************************************)
(* The fallback narrative and the classifier.                              *)
(***************************************************************************)
\* The last classification was of a report with its fallback narrative.
C28_OnFallback ==
    /\ last.op = "classify"
    /\ \E fallback \in {_get_fallback_analysis(last.report.raw_data)} :
          ~fallback.raised /\ last.report.claude_analysis = fallback.value

\* The report is healthy: its volume is at or above the minimum, its rate at
\* or above 95%, and neither the change of the rate nor the number of sources
\* made the decision.
C28_Healthy ==
    /\ SumCount(last.report.raw_data.records) >= minimum_messages_for_alert(last.thresholds)
    /\ RatLe(RatInt(95), ReportAuthRate(last.report.raw_data))
    /\ last.result.decided_by \notin {"change", "sources"}

\* C28: a healthy report whose narrative is the fallback text is classified
\* not significant: the words and the warning marker of the fallback text do
\* not make the keyword test fire.
C28_FallbackNotSignificant ==
    (C28_OnFallback /\ C28_Healthy) => ~last.result.significant

\* A healthy report with a failing record: its fallback text holds issue
\* keywords, and the classifier decided on the keywords.
C28_Witness ==
    /\ C28_OnFallback /\ C28_Healthy
    /\ \E rec \in Range(last.report.raw_data.records) : ~PassBoth(rec)
    /\ ContainsAny(LowerText(last.report.claude_analysis), issue_keywords)
    /\ last.result.decided_by = "positive"

(***************************************************************************)
(* The issues flag of the store and the decision of the classifier.        *)
(***************************************************************************)
\* The rows of the reports table for the domain of the report last classified.
C29_DomainRows ==
    SelectSeq(reports, LAMBDA r : r.domain = last.report.raw_data.policy.domain)

\* The analysis rows stored for the report last classified.
C29_AnalysisRows ==
    SelectSeq(analyses, LAMBDA a : \E r \in Range(C29_DomainRows) : a.report_id = r.id)

\* The report last classified was classified under the default thresholds, has
\* the minimum volume, and is the only report of its domain in the store,
\* stored once, with the narrative it was classified with.
C29_Case ==
    /\ last.op = "classify"
    /\ last.thresholds = << >>
    /\ SumCount(last.report.raw_data.records) >= DefaultMinimumMessages
    /\ Len(C29_DomainRows) = 1
    /\ RowKey(C29_DomainRows[1]) = ReportKey(last.report.raw_data)
    /\ Len(C29_AnalysisRows) = 1
    /\ C29_AnalysisRows[1].claude_analysis = last.report.claude_analysis

\* C29: for a report with the minimum volume and no history of its domain,
\* the issues flag store_report wrote in the analysis row is set exactly when
\* the classifier, under the default thresholds, classifies the report with
\* the same narrative significant.
C29_FlagAgrees ==
    C29_Case => (C29_AnalysisRows[1].has_issues <=> last.result.significant)

(***************************************************************************)
(* The issues alert of a run and its markers.                              *)
(***************************************************************************)
\* The number of reports the composer of the run just ended classified
\* significant.
C30_Significant(run) ==
    IF DictGet(run.report_data, "has_issues", FALSE) THEN run.report_data.issue_count ELSE 0

\* The rows of an alert history written today as sent alerts: the purge at
\* the start of a run deletes rows older than the retention period only.
C30_SentToday(history) ==
    Cardinality({i \in 1..Len(history) :
                    history[i].created_at = now /\ history[i].alert_sent})

\* C30: a run in which a report is classified significant either hands the
\* issues payload to the mail transport with success, and appends one sent
\* row to the alert history for each significant report, or ends marked
\* failed with the last-successful-run marker as it was: it never records
\* success while its alert was not delivered.
C30_AlertDeliveredOrFailed ==
    [][ (last'.op = "main" /\ C30_Significant(last') > 0) =>
          \/ /\ last'.mail = "sent"
             /\ C30_SentToday(alert_history') =
                    C30_SentToday(alert_history) + C30_Significant(last')
          \/ /\ ~last'.returned
             /\ last_failed_run' = now
             /\ last_successful_run' = last_successful_run ]_vars

====
